---- MODULE Spec2Model ----
(***************************************************************************)
(* Conway's Game of Life engine (Cell, Grid, GameOfLife) as a state        *)
(* machine.  Every public method of GameOfLife is one atomic action: the   *)
(* program is single-threaded JavaScript and every handler runs to         *)
(* completion.                                                             *)
(***************************************************************************)
EXTENDS Integers, Sequences, FiniteSets, TLC

VARIABLES
    width,            \* Grid.width
    height,           \* Grid.height
    cells,            \* Grid.cells: cells[y][x] is a Cell record
    cellIds,          \* cellIds[y][x]: the identity of the Cell object at cells[y][x]
    generation,       \* GameOfLife.generation
    isRunning,        \* GameOfLife.isRunning
    intervalId,       \* GameOfLife.intervalId (NullId when null)
    updateSpeed,      \* GameOfLife.updateSpeed
    timers,           \* the host's active interval timers: records [id, delay]
    onUpdate,         \* GameOfLife.onUpdate is set (TRUE) or null (FALSE)
    onStateChange,    \* GameOfLife.onStateChange is set (TRUE) or null (FALSE)
    audioSystem,      \* GameOfLife.audioSystem is set (TRUE) or null (FALSE)
    cellStateChanges, \* GameOfLife.cellStateChanges: [births, deaths]
    audioCalls,       \* calls made on the audio system by the last operation
    callbacks,        \* onUpdate/onStateChange calls made by the last operation
    now,              \* the clock, performance.now(), in hundredths of a millisecond
    renderer,         \* Renderer: [lastFrameTime, canvas, lastCall]
    thermal,          \* ThermalFieldRenderer: settings.enableCaching, lastFieldData,
                      \* framesSinceUpdate, lastUpdateTime and the last result
    field,            \* the temperature field (Float32Array) being processed by the
                      \* ThermalFieldRenderer, before and after its last pass
    pixel,            \* the last getThermalColor call: its argument and its result
    task,             \* the callback the event loop is running and the position it
                      \* has reached in it
    op                \* the last operation performed (history variable)

\* the state of the display side (clock, Renderer, ThermalFieldRenderer) and
\* of the event loop
display == <<now, renderer, thermal, field, pixel, task>>

vars == <<width, height, cells, cellIds, now, renderer, thermal, field, pixel, task, generation, isRunning, intervalId, updateSpeed,
          timers, onUpdate, onStateChange, audioSystem, cellStateChanges,
          audioCalls, callbacks, op>>

----------------------------------------------------------------------------
(* Bounds of the model *)

\* step() is not taken once the generation counter has reached MaxGen
MaxGen == 3

\* in the long runs (blinker, glider, ageing cells) step() is not taken once
\* the generation counter has reached MaxRun
MaxRun == 8

\* in the ageing specification step() is not taken once the generation
\* counter has reached MaxAgeRun
MaxAgeRun == 20

\* grid dimensions of the engine specification (one row)
EngineWidths == {2, 3}
EngineHeights == {1}

\* grid dimensions of the grid specification
GridWidths == {2}
GridHeights == {1, 2}

\* grid dimensions of the rule specification
RuleDims == {1, 2, 3}

----------------------------------------------------------------------------
(* Cell *)

\* new Cell(alive)
NewCell(alive) ==
    [alive |-> alive, age |-> IF alive THEN 1 ELSE 0, nextState |-> FALSE]

\* Cell.setNextState that never takes back a pending birth or survival
CellSetNextStateSticky(cell, alive) == [cell EXCEPT !.nextState = @ \/ alive]

\* a pending state that takes effect at once (update in place)
CellSetNextStateInPlace(cell, state) ==
    [cell EXCEPT !.alive = state, !.nextState = state]

\* Cell.setNextState(alive)
CellSetNextState(cell, alive) == [cell EXCEPT !.nextState = alive]

\* Cell.update() with the age capped at 20
CellUpdateCapped(cell) ==
    LET wasAlive == cell.alive
        nowAlive == cell.nextState
    IN  [cell EXCEPT !.alive = nowAlive,
                     !.age = IF nowAlive
                             THEN (IF wasAlive
                                   THEN (IF cell.age < 20 THEN cell.age + 1 ELSE 20)
                                   ELSE 1)
                             ELSE 0]

\* Cell.update() that leaves the age of a dying cell as it was
CellUpdateKeepAge(cell) ==
    LET wasAlive == cell.alive
        nowAlive == cell.nextState
    IN  [cell EXCEPT !.alive = nowAlive,
                     !.age = IF nowAlive
                             THEN (IF wasAlive THEN cell.age + 1 ELSE 1)
                             ELSE cell.age]

\* Cell.update()
CellUpdate(cell) ==
    LET wasAlive == cell.alive
        nowAlive == cell.nextState
    IN  [cell EXCEPT !.alive = nowAlive,
                     !.age = IF nowAlive
                             THEN (IF wasAlive THEN cell.age + 1 ELSE 1)
                             ELSE 0]

\* Cell.setState(alive)
CellSetState(cell, alive) ==
    [alive |-> alive, nextState |-> alive, age |-> IF alive THEN 1 ELSE 0]

\* Cell.toggle()
CellToggle(cell) == CellSetState(cell, ~cell.alive)

\* Cell.reset() that leaves the age as it was
CellResetKeepAge(cell) == [alive |-> FALSE, nextState |-> FALSE, age |-> cell.age]

\* Cell.reset()
CellReset(cell) == [alive |-> FALSE, nextState |-> FALSE, age |-> 0]

\* Cell.clone() that does not copy the age
CellCloneFresh(cell) == [alive |-> cell.alive, age |-> IF cell.alive THEN 1 ELSE 0,
                         nextState |-> cell.nextState]

\* Cell.clone()
CellClone(cell) ==
    [NewCell(cell.alive) EXCEPT !.age = cell.age, !.nextState = cell.nextState]

\* Cell.isNewborn()
CellIsNewborn(cell) == cell.alive /\ cell.age = 1

----------------------------------------------------------------------------
(* Grid.  A grid value is a record [width, height, cells]. *)

\* the result of getCell for a position that is not in the grid (null)
NoCell == [none |-> TRUE]

\* Grid.createEmptyGrid() makes one Cell object for every position of the
\* row it fills (new Cell(false) inside the inner loop): the identities of
\* the objects, numbered from first in the order they are made
CreateEmptyIdsSharedRow(w, h, first) ==
    [y \in 0..(h - 1) |-> [x \in 0..(w - 1) |-> first + y]]
CreateEmptyIds(w, h, first) ==
    [y \in 0..(h - 1) |-> [x \in 0..(w - 1) |-> first + y * w + x]]

\* Grid.createEmptyGrid()
CreateEmptyGrid(w, h) == [y \in 0..(h - 1) |-> [x \in 0..(w - 1) |-> NewCell(FALSE)]]

\* new Grid(width, height)
NewGrid(w, h) ==
    [width |-> w, height |-> h, cells |-> CreateEmptyGrid(w, h),
     ids |-> CreateEmptyIds(w, h, 1)]

\* Grid.getCell on a torus: positions wrap around the edges
GetCellWrap(g, x, y) == g.cells[y % g.height][x % g.width]

\* Grid.getCell that clamps a position to the nearest cell of the grid
GetCellClamp(g, x, y) ==
    LET cx == IF x < 0 THEN 0 ELSE IF x >= g.width THEN g.width - 1 ELSE x
        cy == IF y < 0 THEN 0 ELSE IF y >= g.height THEN g.height - 1 ELSE y
    IN  g.cells[cy][cx]

\* Grid.getCell(x, y)
GetCell(g, x, y) ==
    IF x < 0 \/ x >= g.width \/ y < 0 \/ y >= g.height
    THEN NoCell
    ELSE g.cells[y][x]

\* Grid.setCellState(x, y, alive)
GridSetCellState(g, x, y, alive) ==
    LET cell == GetCell(g, x, y)
    IN  IF cell /= NoCell
        THEN [g EXCEPT !.cells[y][x] = CellSetState(cell, alive)]
        ELSE g

\* Grid.toggleCell(x, y)
GridToggleCell(g, x, y) ==
    LET cell == GetCell(g, x, y)
    IN  IF cell /= NoCell
        THEN [g EXCEPT !.cells[y][x] = CellToggle(cell)]
        ELSE g

\* the offsets of the four orthogonal neighbours and the centre only
NeighborOffsetsOrthogonal ==
    << <<0, -1>>, <<-1, 0>>, <<0, 0>>, <<1, 0>>, <<0, 1>> >>

\* the 9 (dx, dy) offsets in the order the two nested loops visit them
NeighborOffsets ==
    << <<-1, -1>>, <<0, -1>>, <<1, -1>>,
       <<-1, 0>>,  <<0, 0>>,  <<1, 0>>,
       <<-1, 1>>,  <<0, 1>>,  <<1, 1>> >>

\* the body of the two nested loops of getLivingNeighborCount, from the k-th
\* offset on
RECURSIVE NeighborLoop(_, _, _, _)
NeighborLoop(g, x, y, k) ==
    IF k > Len(NeighborOffsets) THEN 0
    ELSE LET dx == NeighborOffsets[k][1]
             dy == NeighborOffsets[k][2]
             neighbor == GetCell(g, x + dx, y + dy)
         IN  IF dx = 0 /\ dy = 0
             THEN NeighborLoop(g, x, y, k + 1)
             ELSE (IF neighbor /= NoCell /\ neighbor.alive THEN 1 ELSE 0)
                  + NeighborLoop(g, x, y, k + 1)

\* Grid.getLivingNeighborCount(x, y)
GetLivingNeighborCount(g, x, y) == NeighborLoop(g, x, y, 1)

\* Grid.clear()
GridClear(g) ==
    [g EXCEPT !.cells = [y \in 0..(g.height - 1) |->
                           [x \in 0..(g.width - 1) |-> CellReset(g.cells[y][x])]]]

\* Grid.randomize(probability) with the outcomes of Math.random() < probability
\* given as draw[y][x]
GridRandomize(g, draw) ==
    [g EXCEPT !.cells = [y \in 0..(g.height - 1) |->
                           [x \in 0..(g.width - 1) |->
                              CellSetState(g.cells[y][x], draw[y][x])]]]

\* Grid.getPopulation()
GetPopulation(g) ==
    Cardinality({p \in (0..(g.width - 1)) \X (0..(g.height - 1)) :
                    g.cells[p[2]][p[1]].alive})

\* Math.min
Min(a, b) == IF a < b THEN a ELSE b

\* the largest identity in use in a grid (0 when the grid has no cell)
LargestId(g) ==
    LET used == {g.ids[y][x] : x \in 0..(g.width - 1), y \in 0..(g.height - 1)}
    IN  IF used = {} THEN 0 ELSE CHOOSE i \in used : \A j \in used : j <= i

\* An object identity is opaque: only the equality of two identities can be
\* observed.  The identities of a grid are renamed so that each object is
\* named after the first position (row-major) that holds it.
RenameIds(ids, w, h) ==
    LET used == {ids[y][x] : x \in 0..(w - 1), y \in 0..(h - 1)}
        first(i) == CHOOSE k \in 0..(w * h - 1) :
                       /\ ids[k \div w][k % w] = i
                       /\ \A j \in 0..(k - 1) : ids[j \div w][j % w] /= i
    IN  IF w >= 1 /\ h >= 1 /\ Cardinality(used) = w * h
        THEN CreateEmptyIds(w, h, 1)
        ELSE [y \in 0..(h - 1) |-> [x \in 0..(w - 1) |-> 1 + first(ids[y][x])]]

\* Grid.resize(newWidth, newHeight)
GridResize(g, newWidth, newHeight) ==
    LET oldCells == g.cells
        copyWidth == Min(g.width, newWidth)
        copyHeight == Min(g.height, newHeight)
        empty == CreateEmptyGrid(newWidth, newHeight)
        fresh == 1 + LargestId(g)
        emptyIds == CreateEmptyIds(newWidth, newHeight, fresh)
        \* clone() returns a new Cell object
        cloneId(x, y) == fresh + newWidth * newHeight + y * copyWidth + x
        newIds == [y \in 0..(newHeight - 1) |->
                     [x \in 0..(newWidth - 1) |->
                        IF y < copyHeight /\ x < copyWidth
                        THEN cloneId(x, y)
                        ELSE emptyIds[y][x]]]
    IN  [width |-> newWidth, height |-> newHeight,
         cells |-> [y \in 0..(newHeight - 1) |->
                      [x \in 0..(newWidth - 1) |->
                         IF y < copyHeight /\ x < copyWidth
                         THEN CellClone(oldCells[y][x])
                         ELSE empty[y][x]]],
         ids |-> RenameIds(newIds, newWidth, newHeight)]

\* inner loop of Grid.loadPattern(pattern, startX, startY): row y of the
\* pattern from its entry x on (in a grid without columns no position passes
\* the bounds test, so nothing is left to do)
RECURSIVE LoadPatternRow(_, _, _, _, _, _)
LoadPatternRow(g, pattern, startX, startY, y, x) ==
    IF x >= Len(pattern[y + 1]) \/ g.width = 0 THEN g
    ELSE LET gridX == startX + x
             gridY == startY + y
             g2 == IF gridX >= 0 /\ gridX < g.width /\ gridY >= 0 /\ gridY < g.height
                   THEN GridSetCellState(g, gridX, gridY, pattern[y + 1][x + 1])
                   ELSE g
         IN  LoadPatternRow(g2, pattern, startX, startY, y, x + 1)

\* outer loop of Grid.loadPattern(pattern, startX, startY), from row y of the
\* pattern on (likewise for a grid without rows)
RECURSIVE LoadPatternLoop(_, _, _, _, _)
LoadPatternLoop(g, pattern, startX, startY, y) ==
    IF y >= Len(pattern) \/ g.height = 0 THEN g
    ELSE LoadPatternLoop(LoadPatternRow(g, pattern, startX, startY, y, 0),
                         pattern, startX, startY, y + 1)

\* Grid.loadPattern that moves a negative origin to the edge of the grid
GridLoadPatternClamped(g, pattern, startX, startY) ==
    LoadPatternLoop(g, pattern, IF startX < 0 THEN 0 ELSE startX,
                    IF startY < 0 THEN 0 ELSE startY, 0)
GridLoadPattern(g, pattern, startX, startY) ==
    LoadPatternLoop(g, pattern, startX, startY, 0)

----------------------------------------------------------------------------
(* GameOfLife.applyRules *)

\* the rule with survival on exactly 2 neighbours only
NextStateRuleTwoOnly(isAlive, neighborCount) ==
    IF isAlive
    THEN neighborCount = 2
    ELSE neighborCount = 3

\* the rule with survival on exactly 3 neighbours only
NextStateRuleThreeOnly(isAlive, neighborCount) == neighborCount = 3

\* Conway's rule as applyRules writes it (lines 91-99)
NextStateRule(isAlive, neighborCount) ==
    IF isAlive
    THEN neighborCount = 2 \/ neighborCount = 3
    ELSE neighborCount = 3

\* inner loop of the first pair of loops of applyRules, row y from column x
\* on: every cell's pending next state is set from the neighbour count on the
\* grid as the loop finds it
RECURSIVE ComputeRow(_, _, _)
ComputeRow(g, y, x) ==
    IF x >= g.width THEN g
    ELSE LET cell == GetCell(g, x, y)
             neighborCount == GetLivingNeighborCount(g, x, y)
             nextState == NextStateRule(cell.alive, neighborCount)
         IN  ComputeRow([g EXCEPT !.cells[y][x] = CellSetNextState(cell, nextState)],
                        y, x + 1)

\* first pair of loops of applyRules, from row y on
RECURSIVE ComputePhase(_, _)
ComputePhase(g, y) ==
    IF y >= g.height THEN g
    ELSE ComputePhase(ComputeRow(g, y, 0), y + 1)

\* inner loop of the second pair of loops of applyRules, row y from column x
\* on: every cell is updated and the flips are appended to births and deaths
RECURSIVE CommitRow(_, _, _)
CommitRow(s, y, x) ==
    IF x >= s.grid.width THEN s
    ELSE LET cell == GetCell(s.grid, x, y)
             wasAlive == cell.alive
             updated == CellUpdate(cell)
             isAlive == updated.alive
             changes == s.changes
             changes2 ==
                 IF ~wasAlive /\ isAlive
                 THEN [changes EXCEPT !.births = Append(@, [x |-> x, y |-> y])]
                 ELSE IF wasAlive /\ ~isAlive
                      THEN [changes EXCEPT !.deaths = Append(@, [x |-> x, y |-> y])]
                      ELSE changes
         IN  CommitRow([grid |-> [s.grid EXCEPT !.cells[y][x] = updated],
                        changes |-> changes2], y, x + 1)

\* second pair of loops of applyRules, from row y on
RECURSIVE CommitPhase(_, _)
CommitPhase(s, y) ==
    IF y >= s.grid.height THEN s
    ELSE CommitPhase(CommitRow(s, y, 0), y + 1)

\* the change lists carried over instead of cleared
KeptChanges(previous) == previous

\* the value cellStateChanges is reset to before the commit phase (line 106)
ClearedChanges(previous) == [births |-> <<>>, deaths |-> <<>>]

\* the grid and the change lists that applyRules leaves
ApplyRulesGrid(g, previous) ==
    CommitPhase([grid |-> ComputePhase(g, 0), changes |-> ClearedChanges(previous)], 0)

----------------------------------------------------------------------------
(* Audio *)

\* the orders [...cells].sort(() => 0.5 - Math.random()) can leave n cells in
\* are drawn from the rotations of the list and of its reversal
ShuffleDraws(n) == {[rot |-> r, rev |-> b] : r \in 0..(n - 1), b \in BOOLEAN}

Shuffled(cellList, draw) ==
    LET n == Len(cellList)
    IN  [i \in 1..n |->
            LET j == ((i - 1 + draw.rot) % n) + 1
            IN  IF draw.rev THEN cellList[n + 1 - j] ELSE cellList[j]]

\* GameOfLife.selectRandomCells(cells, count)
SelectRandomCells(cellList, count, draw) ==
    SubSeq(Shuffled(cellList, draw), 1, count)

\* the largest number of births played as they are
ArpeggioLimit == 8

\* playAudioForChanges without the cases for one and for many births
PlayAudioUncapped(changes, draw) ==
    IF Len(changes.births) > 0
    THEN << [method |-> "playArpeggio", cells |-> changes.births] >>
    ELSE << >>

\* playAudioForChanges that plays the deaths along with the births
PlayAudioWithDeaths(changes, draw) ==
    IF Len(changes.births) + Len(changes.deaths) > 0
    THEN << [method |-> "playArpeggio", cells |-> changes.births \o changes.deaths] >>
    ELSE << >>

\* GameOfLife.playAudioForChanges(): the calls it makes on the audio system
PlayAudioForChanges(changes, draw) ==
    LET births == changes.births
    IN  IF Len(births) > 0
        THEN IF Len(births) = 1
             THEN << [method |-> "playCellSound", cells |-> <<births[1]>>] >>
             ELSE IF Len(births) <= ArpeggioLimit
                  THEN << [method |-> "playArpeggio", cells |-> births] >>
                  ELSE << [method |-> "playArpeggio",
                           cells |-> SelectRandomCells(births, ArpeggioLimit, draw)] >>
        ELSE << >>

\* the random draws playAudioForChanges consumes for a births list
AudioDraws(births) ==
    IF Len(births) > ArpeggioLimit
    THEN ShuffleDraws(Len(births))
    ELSE {[rot |-> 0, rev |-> FALSE]}

----------------------------------------------------------------------------
(* GameOfLife: timer and callbacks *)

\* the value of intervalId when no timer is set (null)
NullId == 0

\* GameOfLife.updateSpeed after construction (milliseconds)
InitialUpdateSpeed == 100

\* the positions of the speed slider (generations per second)
SpeedChoices == {0, 10}

\* setInterval: an id the host has not handed to an active timer
SetInterval(active) ==
    CHOOSE id \in 1..(Cardinality(active) + 1) : \A t \in active : t.id /= id

\* the grid held by the engine
TheGrid == [width |-> width, height |-> height, cells |-> cells, ids |-> cellIds]

\* the running state of the engine, with the callbacks made so far
RunState ==
    [isRunning |-> isRunning, intervalId |-> intervalId, timers |-> timers,
     updateSpeed |-> updateSpeed, log |-> <<>>]

\* what Controls.updateUI shows when onUpdate is called
UpdateCall(gen, g, running) ==
    [fn |-> "onUpdate", generation |-> gen, population |-> GetPopulation(g),
     running |-> running]

StateChangeCall(running) == [fn |-> "onStateChange", running |-> running]

\* if (this.onUpdate) this.onUpdate()
CallOnUpdate(log, gen, g, running) ==
    IF onUpdate THEN Append(log, UpdateCall(gen, g, running)) ELSE log

\* start() without the early return when the simulation is running
DoStartUnguarded(r) ==
    LET id == SetInterval(r.timers)
    IN  [r EXCEPT !.isRunning = TRUE,
                  !.intervalId = id,
                  !.timers = @ \cup {[id |-> id, delay |-> r.updateSpeed]},
                  !.log = IF onStateChange
                          THEN Append(@, StateChangeCall(TRUE)) ELSE @]

\* GameOfLife.start()
DoStart(r) ==
    IF r.isRunning THEN r
    ELSE LET id == SetInterval(r.timers)
         IN  [r EXCEPT !.isRunning = TRUE,
                       !.intervalId = id,
                       !.timers = @ \cup {[id |-> id, delay |-> r.updateSpeed]},
                       !.log = IF onStateChange
                               THEN Append(@, StateChangeCall(TRUE)) ELSE @]

\* GameOfLife.stop()
DoStop(r) ==
    IF ~r.isRunning THEN r
    ELSE [r EXCEPT !.isRunning = FALSE,
                   !.intervalId = NullId,
                   !.timers = IF r.intervalId /= NullId
                              THEN {t \in @ : t.id /= r.intervalId} ELSE @,
                   !.log = IF onStateChange
                           THEN Append(@, StateChangeCall(FALSE)) ELSE @]

\* GameOfLife.toggle()
DoToggle(r) == IF r.isRunning THEN DoStop(r) ELSE DoStart(r)

\* Math.max
Max(a, b) == IF a > b THEN a ELSE b

\* Math.round(1000 / d) for a positive integer d
RoundDiv(n, d) == (2 * n + d) \div (2 * d)

\* GameOfLife.setSpeed(speed)
DoSetSpeed(r, speed) ==
    LET r1 == [r EXCEPT !.updateSpeed = Max(1, speed)]
    IN  IF r1.isRunning THEN DoStart(DoStop(r1)) ELSE r1

\* the history variable: the operation, whether its position argument was
\* outside the grid, the dimensions before a resize, whether the resize
\* dropped a living cell, whether it directly followed such a resize, and
\* the arguments handed to Grid.loadPattern
Op(name) ==
    [name |-> name, oob |-> FALSE, from |-> <<0, 0>>, lost |-> FALSE,
     afterLoss |-> FALSE, arg |-> << >>]

InGrid(x, y) == x \in 0..(width - 1) /\ y \in 0..(height - 1)

SetRun(r) ==
    /\ isRunning' = r.isRunning
    /\ intervalId' = r.intervalId
    /\ timers' = r.timers
    /\ updateSpeed' = r.updateSpeed

SetGrid(g) ==
    /\ width' = g.width
    /\ height' = g.height
    /\ cells' = g.cells
    /\ cellIds' = g.ids

----------------------------------------------------------------------------
(* GameOfLife: operations *)

\* this.generation++ at the end of applyRules
NextGenerationTwice(gen) == gen + 2
NextGeneration(gen) == gen + 1

\* this.generation = 0 in reset
ResetGenerationKept(gen) == gen
ResetGeneration(gen) == 0

\* GameOfLife.step(): applyRules() and then the onUpdate callback
StepCore(name) ==
    /\ LET res == ApplyRulesGrid(TheGrid, cellStateChanges)
       IN  /\ SetGrid(res.grid)
           /\ cellStateChanges' = res.changes
           /\ \E draw \in AudioDraws(res.changes.births) :
                 audioCalls' = IF audioSystem
                               THEN PlayAudioForChanges(res.changes, draw)
                               ELSE << >>
           /\ generation' = NextGeneration(generation)
           /\ callbacks' = CallOnUpdate(<<>>, NextGeneration(generation), res.grid,
                                        isRunning)
    /\ op' = Op(name)
    /\ UNCHANGED display
    /\ UNCHANGED <<isRunning, intervalId, updateSpeed, timers, onUpdate,
                   onStateChange, audioSystem>>

StepBody(name) ==
    /\ generation < MaxGen
    /\ StepCore(name)

\* the step key (Controls.handleKeyboard, Ctrl+S)
Step == StepBody("step")

\* an interval timer set by start() fires
Tick ==
    /\ timers /= {}
    /\ StepBody("tick")

\* step() and the timer in the long runs
RunStep ==
    /\ generation < MaxRun
    /\ StepCore("step")

RunTick ==
    /\ timers /= {}
    /\ generation < MaxRun
    /\ StepCore("tick")

\* step() in the ageing specification
AgeStep ==
    /\ generation < MaxAgeRun
    /\ StepCore("step")

Start ==
    /\ LET r == DoStart(RunState)
       IN  SetRun(r) /\ callbacks' = r.log
    /\ audioCalls' = << >>
    /\ op' = Op("start")
    /\ UNCHANGED display
    /\ UNCHANGED <<width, height, cells, cellIds, generation, onUpdate, onStateChange,
                   audioSystem, cellStateChanges>>

Stop ==
    /\ LET r == DoStop(RunState)
       IN  SetRun(r) /\ callbacks' = r.log
    /\ audioCalls' = << >>
    /\ op' = Op("stop")
    /\ UNCHANGED display
    /\ UNCHANGED <<width, height, cells, cellIds, generation, onUpdate, onStateChange,
                   audioSystem, cellStateChanges>>

Toggle ==
    /\ LET r == DoToggle(RunState)
       IN  SetRun(r) /\ callbacks' = r.log
    /\ audioCalls' = << >>
    /\ op' = Op("toggle")
    /\ UNCHANGED display
    /\ UNCHANGED <<width, height, cells, cellIds, generation, onUpdate, onStateChange,
                   audioSystem, cellStateChanges>>

\* GameOfLife.reset()
Reset ==
    /\ LET r == DoStop(RunState)
           g == GridClear(TheGrid)
       IN  /\ SetRun(r)
           /\ SetGrid(g)
           /\ generation' = ResetGeneration(generation)
           /\ callbacks' = CallOnUpdate(r.log, ResetGeneration(generation), g,
                                        r.isRunning)
    /\ audioCalls' = << >>
    /\ op' = Op("reset")
    /\ UNCHANGED display
    /\ UNCHANGED <<onUpdate, onStateChange, audioSystem, cellStateChanges>>

\* the possible outcomes of the draws of Grid.randomize on a w x h grid
RandomDraws(w, h) == [0..(h - 1) -> [0..(w - 1) -> BOOLEAN]]

\* GameOfLife.randomize(probability), the draws coming out as draw[y][x]
Randomize(draw) ==
    /\ LET r == DoStop(RunState)
           g == GridRandomize(TheGrid, draw)
       IN  /\ SetRun(r)
           /\ SetGrid(g)
           /\ generation' = 0
           /\ callbacks' = CallOnUpdate(r.log, 0, g, r.isRunning)
    /\ audioCalls' = << >>
    /\ op' = Op("randomize")
    /\ UNCHANGED display
    /\ UNCHANGED <<onUpdate, onStateChange, audioSystem, cellStateChanges>>

\* GameOfLife.setSpeedAsFPS(fps)
SetSpeedAsFPS ==
    /\ \E fps \in SpeedChoices :
          LET speed == RoundDiv(1000, Max(1, fps))
              r == DoSetSpeed(RunState, speed)
          IN  SetRun(r) /\ callbacks' = r.log
    /\ audioCalls' = << >>
    /\ op' = Op("setSpeed")
    /\ UNCHANGED display
    /\ UNCHANGED <<width, height, cells, cellIds, generation, onUpdate, onStateChange,
                   audioSystem, cellStateChanges>>

\* GameOfLife.resizeGrid(width, height)
ResizeGrid(newWidth, newHeight) ==
    /\ LET wasRunning == isRunning
           r1 == DoStop(RunState)
           g == GridResize(TheGrid, newWidth, newHeight)
           r2 == [r1 EXCEPT !.log = CallOnUpdate(@, generation, g, r1.isRunning)]
           r3 == IF wasRunning THEN DoStart(r2) ELSE r2
       IN  /\ SetRun(r3)
           /\ SetGrid(g)
           /\ callbacks' = r3.log
    /\ audioCalls' = << >>
    /\ op' = [Op("resizeGrid") EXCEPT
                 !.from = <<width, height>>,
                 !.lost = \E y \in 0..(height - 1), x \in 0..(width - 1) :
                             cells[y][x].alive /\ (x >= newWidth \/ y >= newHeight),
                 !.afterLoss = (op.name = "resizeGrid" /\ op.lost)]
    /\ UNCHANGED display
    /\ UNCHANGED <<generation, onUpdate, onStateChange, audioSystem,
                   cellStateChanges>>

\* Math.floor(n / 2) for an integer n of either sign
FloorHalf(n) == n \div 2

\* GameOfLife.loadPattern(pattern) with the default centre
LoadPattern(pattern) ==
    /\ LET startX == FloorHalf(width - Len(pattern[1]))
           startY == FloorHalf(height - Len(pattern))
           g == GridLoadPattern(TheGrid, pattern, startX, startY)
       IN  /\ SetGrid(g)
           /\ callbacks' = CallOnUpdate(<<>>, generation, g, isRunning)
    /\ audioCalls' = << >>
    /\ op' = Op("loadPattern")
    /\ UNCHANGED display
    /\ UNCHANGED <<generation, isRunning, intervalId, updateSpeed, timers,
                   onUpdate, onStateChange, audioSystem, cellStateChanges>>

\* GameOfLife.loadPattern(pattern, centerX, centerY)
LoadPatternAt(pattern, centerX, centerY) ==
    /\ LET startX == centerX - FloorHalf(Len(pattern[1]))
           startY == centerY - FloorHalf(Len(pattern))
           g == GridLoadPattern(TheGrid, pattern, startX, startY)
       IN  /\ SetGrid(g)
           /\ callbacks' = CallOnUpdate(<<>>, generation, g, isRunning)
           /\ op' = [Op("loadPatternAt") EXCEPT !.arg = <<pattern, startX, startY>>]
    /\ audioCalls' = << >>
    /\ UNCHANGED display
    /\ UNCHANGED <<generation, isRunning, intervalId, updateSpeed, timers,
                   onUpdate, onStateChange, audioSystem, cellStateChanges>>

\* Controls.loadPattern(patternName) for a known pattern: game.reset() and
\* then game.loadPattern(pattern)
ControlsLoadPattern(pattern) ==
    /\ LET r == DoStop(RunState)
           g1 == GridClear(TheGrid)
           gen == ResetGeneration(generation)
           log1 == CallOnUpdate(r.log, gen, g1, r.isRunning)
           startX == FloorHalf(width - Len(pattern[1]))
           startY == FloorHalf(height - Len(pattern))
           g2 == GridLoadPattern(g1, pattern, startX, startY)
       IN  /\ SetRun(r)
           /\ SetGrid(g2)
           /\ generation' = gen
           /\ callbacks' = CallOnUpdate(log1, gen, g2, r.isRunning)
    /\ audioCalls' = << >>
    /\ op' = [Op("controlsLoadPattern") EXCEPT !.arg = <<pattern>>]
    /\ UNCHANGED display
    /\ UNCHANGED <<onUpdate, onStateChange, audioSystem, cellStateChanges>>

\* GameOfLife.toggleCell(x, y)
ToggleCell(x, y) ==
    /\ LET g == GridToggleCell(TheGrid, x, y)
       IN  /\ SetGrid(g)
           /\ callbacks' = CallOnUpdate(<<>>, generation, g, isRunning)
    /\ audioCalls' = << >>
    /\ op' = [Op("toggleCell") EXCEPT !.oob = ~InGrid(x, y)]
    /\ UNCHANGED display
    /\ UNCHANGED <<generation, isRunning, intervalId, updateSpeed, timers,
                   onUpdate, onStateChange, audioSystem, cellStateChanges>>

\* GameOfLife.setCellState(x, y, alive)
SetCellState(x, y, alive) ==
    /\ LET g == GridSetCellState(TheGrid, x, y, alive)
       IN  /\ SetGrid(g)
           /\ callbacks' = CallOnUpdate(<<>>, generation, g, isRunning)
    /\ audioCalls' = << >>
    /\ op' = [Op("setCellState") EXCEPT !.oob = ~InGrid(x, y)]
    /\ UNCHANGED display
    /\ UNCHANGED <<generation, isRunning, intervalId, updateSpeed, timers,
                   onUpdate, onStateChange, audioSystem, cellStateChanges>>

----------------------------------------------------------------------------
(* The display side: the clock, Renderer.render and
   ThermalFieldRenderer.createThermalField.  Times are in hundredths of a
   millisecond, so that 33.33 ms is the integer 3333. *)

\* the clock is not advanced past MaxTime
MaxTime == 20000

\* render() returns without drawing when less than 33.33 ms have passed
FrameInterval == 3333

\* settings.cacheLifetime
CacheLifetime == 3

\* createThermalField: "Max 100ms cache"
CacheMaxAge == 10000

\* nothing has been drawn on the canvas yet
NoFrame == [none |-> TRUE]

\* ThermalFieldRenderer.lastFieldData is null
NoField == [none |-> TRUE]

\* Math.min(cell.age / 20, 0.5), in hundredths
AgeBonus(cell) == Min(5 * cell.age, 50)

\* calculateCellHeat without the bonus for newborn cells
CalculateCellHeatNoNewborn(cell) == Min(100 + AgeBonus(cell), 200)

\* ThermalFieldRenderer.calculateCellHeat(cell), in hundredths
CalculateCellHeat(cell) ==
    Min(100 + AgeBonus(cell) + (IF CellIsNewborn(cell) THEN 80 ELSE 0), 200)

\* the heat that mapCellsToThermalField takes from each cell of the grid:
\* calculateCellHeat for a living cell, nothing for a dead one
CellHeats(g) ==
    [y \in 0..(g.height - 1) |->
       [x \in 0..(g.width - 1) |->
          IF g.cells[y][x].alive THEN CalculateCellHeat(g.cells[y][x]) ELSE 0]]

\* the result object built by createThermalField at time currentTime: a new
\* object on every build (builtAt tells the builds apart), its temperatures
\* determined by the cell heats
BuildField(g, currentTime) == [heat |-> CellHeats(g), builtAt |-> currentTime]

\* the cache test of createThermalField that does not look at the age of
\* the cached field
CacheHitAnyAge(th, currentTime) ==
    /\ th.enableCaching
    /\ th.lastFieldData /= NoField
    /\ th.framesSinceUpdate < CacheLifetime

\* the cache test at the head of createThermalField
CacheHit(th, currentTime) ==
    /\ th.enableCaching
    /\ th.lastFieldData /= NoField
    /\ th.framesSinceUpdate < CacheLifetime
    /\ currentTime - th.lastUpdateTime < CacheMaxAge

\* ThermalFieldRenderer.createThermalField(cells, ...) called at currentTime;
\* returned is the object it returns, rebuilt tells whether it built it, and
\* served counts the calls that returned lastFieldData since it was stored
CreateThermalField(th, g, currentTime) ==
    IF CacheHit(th, currentTime)
    THEN [th EXCEPT !.framesSinceUpdate = @ + 1,
                    !.returned = th.lastFieldData,
                    !.rebuilt = FALSE,
                    !.served = @ + 1]
    ELSE LET result == BuildField(g, currentTime)
         IN  IF th.enableCaching
             THEN [th EXCEPT !.lastFieldData = result,
                             !.framesSinceUpdate = 0,
                             !.lastUpdateTime = currentTime,
                             !.returned = result,
                             !.rebuilt = TRUE,
                             !.served = 0]
             ELSE [th EXCEPT !.returned = result, !.rebuilt = TRUE]

\* new ThermalFieldRenderer()
NewThermal ==
    [enableCaching |-> TRUE, lastFieldData |-> NoField, framesSinceUpdate |-> 0,
     lastUpdateTime |-> 0, returned |-> NoField, rebuilt |-> FALSE, served |-> 0]

\* Renderer.render that records the time of every call
DoRenderEveryCall(r, g, currentTime) ==
    IF currentTime - r.lastFrameTime < FrameInterval
    THEN [r EXCEPT !.lastFrameTime = currentTime, !.lastCall = "skipped"]
    ELSE [lastFrameTime |-> currentTime,
          canvas |-> [at |-> currentTime, cells |-> g.cells],
          lastCall |-> "drawn"]

\* Renderer.render(grid, currentTime); canvas is what the last drawing call
\* put on the canvas and when
DoRender(r, g, currentTime) ==
    IF currentTime - r.lastFrameTime < FrameInterval
    THEN [r EXCEPT !.lastCall = "skipped"]
    ELSE [lastFrameTime |-> currentTime,
          canvas |-> [at |-> currentTime, cells |-> g.cells],
          lastCall |-> "drawn"]

\* no temperature field has been processed yet
NoThermalField == [stage |-> "none"]

\* no colour has been looked up yet
NoPixel == [stage |-> "none"]

\* no callback is running: the event loop is free to start one
IdleTask == [name |-> "idle", at |-> "none", from |-> 0]

\* new Renderer(canvas)
NewRenderer == [lastFrameTime |-> 0, canvas |-> NoFrame, lastCall |-> "none"]

DisplayConstructed ==
    /\ now = 0
    /\ renderer = NewRenderer
    /\ thermal = NewThermal
    /\ field = NoThermalField
    /\ pixel = NoPixel
    /\ task = IdleTask

\* the engine is left alone by the display side
EngineUnchanged ==
    UNCHANGED <<width, height, cells, cellIds, generation, isRunning, intervalId,
                updateSpeed, timers, onUpdate, onStateChange, audioSystem,
                cellStateChanges, audioCalls, callbacks>>

\* one frame of the render loop (Renderer.startRenderLoop), dt after the
\* last reading of the clock
RenderFrame(dt) ==
    /\ now + dt <= MaxTime
    /\ now' = now + dt
    /\ renderer' = DoRender(renderer, TheGrid, now + dt)
    /\ op' = Op("render")
    /\ UNCHANGED <<thermal, field, pixel, task>>
    /\ EngineUnchanged

\* Renderer.drawThermalField(grid), dt after the last reading of the clock
DrawThermalField(dt) ==
    /\ now + dt <= MaxTime
    /\ now' = now + dt
    /\ thermal' = CreateThermalField(thermal, TheGrid, now + dt)
    /\ op' = Op("drawThermalField")
    /\ UNCHANGED <<renderer, field, pixel, task>>
    /\ EngineUnchanged

\* ThermalFieldRenderer.updateSettings({ enableCaching: enable })
UpdateSettings(enable) ==
    /\ thermal' = [thermal EXCEPT !.enableCaching = enable]
    /\ op' = Op("updateSettings")
    /\ UNCHANGED <<now, renderer, field, pixel, task>>
    /\ EngineUnchanged

\* ThermalFieldRenderer.clearCache(): fieldCache.clear(); the fieldCache map
\* is never written or read by any other method
ClearCache ==
    /\ op' = Op("clearCache")
    /\ UNCHANGED display
    /\ EngineUnchanged

----------------------------------------------------------------------------
(* The engine specification: every operation, on small grids *)

\* new GameOfLife(width, height), then setAudioSystem (main.js
\* initializeAudio) when audio holds and setOnUpdateCallback and
\* setOnStateChangeCallback (Controls.setupGameCallbacks) when wired holds
Constructed(w, h, audio, wired) ==
    /\ width = w
    /\ height = h
    /\ cells = CreateEmptyGrid(w, h)
    /\ cellIds = CreateEmptyIds(w, h, 1)
    /\ DisplayConstructed
    /\ generation = 0
    /\ isRunning = FALSE
    /\ intervalId = NullId
    /\ updateSpeed = InitialUpdateSpeed
    /\ timers = {}
    /\ onUpdate = wired
    /\ onStateChange = wired
    /\ audioSystem = audio
    /\ cellStateChanges = [births |-> <<>>, deaths |-> <<>>]
    /\ audioCalls = << >>
    /\ callbacks = << >>
    /\ op = Op("new")

Init == \E w \in EngineWidths, h \in EngineHeights : Constructed(w, h, TRUE, TRUE)

\* the patterns loaded in the engine specification
EnginePatterns ==
    { << <<TRUE, TRUE, TRUE>> >>,
      << <<TRUE, FALSE>>, <<FALSE, TRUE>> >> }

EditRandomize == \E draw \in RandomDraws(width, height) : Randomize(draw)
EditResize == \E w \in EngineWidths, h \in EngineHeights : ResizeGrid(w, h)
EditLoadPattern == \E pattern \in EnginePatterns : LoadPattern(pattern)
\* the positions handed to toggleCell and setCellState: the grid and the ring
\* of positions around it
EditToggleCell == \E x \in -1..width, y \in -1..height : ToggleCell(x, y)
EditSetCellState ==
    \E x \in -1..width, y \in -1..height, alive \in BOOLEAN : SetCellState(x, y, alive)

Next ==
    \/ Step
    \/ Tick
    \/ Start
    \/ Stop
    \/ Toggle
    \/ Reset
    \/ EditRandomize
    \/ SetSpeedAsFPS
    \/ EditResize
    \/ EditLoadPattern
    \/ EditToggleCell
    \/ EditSetCellState

Spec == Init /\ [][Next]_vars

----------------------------------------------------------------------------
(* The grid specification: the operations that read or write the grid, with
   the simulation stopped *)

InitGrid == \E w \in GridWidths, h \in GridHeights : Constructed(w, h, TRUE, TRUE)

GridEditResize == \E w \in GridWidths, h \in GridHeights : ResizeGrid(w, h)

NextGrid ==
    \/ Step
    \/ Reset
    \/ EditRandomize
    \/ GridEditResize
    \/ EditLoadPattern
    \/ EditToggleCell
    \/ EditSetCellState

SpecGrid == InitGrid /\ [][NextGrid]_vars

----------------------------------------------------------------------------
(* The rule specification: generations from every configuration of every
   grid of up to 3 x 3 cells, as randomize leaves it on a new engine *)

InitRules ==
    \E w \in RuleDims, h \in RuleDims :
      \E draw \in RandomDraws(w, h) :
        LET g == GridRandomize(NewGrid(w, h), draw)
        IN  /\ width = w
            /\ height = h
            /\ cells = g.cells
            /\ cellIds = g.ids
            /\ DisplayConstructed
            /\ generation = 0
            /\ isRunning = FALSE
            /\ intervalId = NullId
            /\ updateSpeed = InitialUpdateSpeed
            /\ timers = {}
            /\ onUpdate = TRUE
            /\ onStateChange = TRUE
            /\ audioSystem = TRUE
            /\ cellStateChanges = [births |-> <<>>, deaths |-> <<>>]
            /\ audioCalls = << >>
            /\ callbacks = << UpdateCall(0, g, FALSE) >>
            /\ op = Op("randomize")

NextRules == Step

SpecRules == InitRules /\ [][NextRules]_vars

----------------------------------------------------------------------------
(* The audio specification: generations with none, one, several and more than
   ArpeggioLimit births on a 5 x 4 grid, with and without an audio system *)

\* width and height of its grid
AudioDims == <<5, 4>>

\* a draw of randomize given as rows of 0 and 1
DrawOf(rows) ==
    [y \in 0..(Len(rows) - 1) |->
        [x \in 0..(Len(rows[1]) - 1) |-> rows[y + 1][x + 1] = 1]]

\* configurations whose next generation has 1, 8, 9 and 10 births
AudioSeeds ==
    { DrawOf(<< <<1,1,0,0,0>>, <<1,0,0,0,0>>, <<0,0,0,0,0>>, <<0,0,0,0,0>> >>),
      DrawOf(<< <<1,0,0,0,1>>, <<0,1,1,1,0>>, <<1,0,0,0,1>>, <<0,0,0,0,0>> >>),
      DrawOf(<< <<1,0,0,1,0>>, <<1,1,0,1,1>>, <<0,0,0,0,0>>, <<1,0,0,1,0>> >>),
      DrawOf(<< <<1,0,0,0,1>>, <<0,1,1,1,0>>, <<0,1,1,1,0>>, <<1,0,0,0,1>> >>) }

InitAudio ==
    \E audio \in BOOLEAN : Constructed(AudioDims[1], AudioDims[2], audio, TRUE)

SeedRandomize == \E draw \in AudioSeeds : Randomize(draw)

NextAudio ==
    \/ Step
    \/ SeedRandomize

SpecAudio == InitAudio /\ [][NextAudio]_vars

----------------------------------------------------------------------------------------------------------------------------------------
(* The resize specification: a 10 x 10 grid holding three blocks that have
   lived through one generation is shrunk to 5 x 5 and grown back, with cells
   set and cleared at probe positions *)

ResizeDims == {5, 10}

\* three 2 x 2 blocks: inside the 5 x 5 corner, across its edge, outside it
ResizeSeed ==
    << << <<1, 1>>, <<TRUE, TRUE>>, <<TRUE, TRUE>> >>,
       << <<4, 4>>, <<TRUE, TRUE>>, <<TRUE, TRUE>> >>,
       << <<8, 8>>, <<TRUE, TRUE>>, <<TRUE, TRUE>> >> >>

\* Grid.loadPattern of the seed's blocks at their origins
RECURSIVE LoadSeed(_, _, _)
LoadSeed(g, seed, k) ==
    IF k > Len(seed) THEN g
    ELSE LoadSeed(GridLoadPattern(g, Tail(seed[k]), seed[k][1][1], seed[k][1][2]),
                  seed, k + 1)

\* positions inside the 5 x 5 corner, on its edge, just outside it and far
\* outside it
ProbePositions == { <<0, 0>>, <<4, 4>>, <<5, 4>>, <<9, 9>>, <<7, 2>> }

\* new GameOfLife(10, 10), the seed loaded, one step()
InitResize ==
    LET res == ApplyRulesGrid(LoadSeed(NewGrid(10, 10), ResizeSeed, 1),
                              [births |-> <<>>, deaths |-> <<>>])
    IN  /\ width = 10
        /\ height = 10
        /\ cells = res.grid.cells
        /\ cellIds = res.grid.ids
        /\ DisplayConstructed
        /\ generation = 1
        /\ isRunning = FALSE
        /\ intervalId = NullId
        /\ updateSpeed = InitialUpdateSpeed
        /\ timers = {}
        /\ onUpdate = TRUE
        /\ onStateChange = TRUE
        /\ audioSystem = TRUE
        /\ cellStateChanges = res.changes
        /\ audioCalls = << >>
        /\ callbacks = << UpdateCall(1, res.grid, FALSE) >>
        /\ op = Op("step")

ProbeResize == \E w \in ResizeDims, h \in ResizeDims : ResizeGrid(w, h)

ProbeSetCellState ==
    \E p \in ProbePositions, alive \in BOOLEAN : SetCellState(p[1], p[2], alive)

NextResize ==
    \/ ProbeResize
    \/ ProbeSetCellState

SpecResize == InitResize /\ [][NextResize]_vars

----------------------------------------------------------------------------
(* The pattern specification: patterns loaded at every origin, also
   negative ones and ones that push the pattern past the edge, into a grid
   that has lived through one generation and holds cells of several ages;
   one pattern is placed into each such grid *)

PatternWidths == {2, 3}
PatternHeights == {2}

\* every boolean matrix with rows rows of cols entries
Matrices(rows, cols) == [1..rows -> [1..cols -> BOOLEAN]]

\* the patterns loaded: every 1 x 1 and 2 x 2 boolean matrix
PlacedPatterns == Matrices(1, 1) \cup Matrices(2, 2)

\* new GameOfLife, randomize(draw) and one step()
InitPattern ==
    \E w \in PatternWidths, h \in PatternHeights :
     \E draw \in RandomDraws(w, h) :
      LET g == GridRandomize(NewGrid(w, h), draw)
          res == ApplyRulesGrid(g, [births |-> <<>>, deaths |-> <<>>])
      IN  /\ width = w
          /\ height = h
          /\ cells = res.grid.cells
          /\ cellIds = res.grid.ids
          /\ DisplayConstructed
          /\ generation = 1
          /\ isRunning = FALSE
          /\ intervalId = NullId
          /\ updateSpeed = InitialUpdateSpeed
          /\ timers = {}
          /\ onUpdate = TRUE
          /\ onStateChange = TRUE
          /\ audioSystem = TRUE
          /\ cellStateChanges = res.changes
          /\ audioCalls = << >>
          /\ callbacks = << UpdateCall(1, res.grid, FALSE) >>
          /\ op = Op("step")

PlacePattern ==
    /\ op.name = "step"
    /\ \E pattern \in PlacedPatterns :
         \E centerX \in -1..(width + 1), centerY \in -1..(height + 1) :
           LoadPatternAt(pattern, centerX, centerY)

NextPattern == PlacePattern

SpecPattern == InitPattern /\ [][NextPattern]_vars

----------------------------------------------------------------------------
(* The construction specification: new GameOfLife(width, height) with
   dimensions that are negative, zero or positive *)

ConstructDims == {-1, 0, 1, 2}

InitConstruct ==
    \E w \in ConstructDims, h \in ConstructDims : Constructed(w, h, TRUE, TRUE)

NextConstruct ==
    \/ Step
    \/ EditToggleCell

SpecConstruct == InitConstruct /\ [][NextConstruct]_vars

----------------------------------------------------------------------------
(* The blinker specification: the blinker of the pattern menu loaded into
   grids of 5 x 5 and more, run by hand and by the timer *)

BlinkerDims == {5, 6}

\* Controls.getPatterns().blinker
Blinker == << <<TRUE, TRUE, TRUE>> >>

InitBlinker ==
    \E w \in BlinkerDims, h \in BlinkerDims : Constructed(w, h, TRUE, TRUE)

LoadBlinker == ControlsLoadPattern(Blinker)

NextBlinker ==
    \/ LoadBlinker
    \/ RunStep
    \/ RunTick
    \/ Toggle

SpecBlinker == InitBlinker /\ [][NextBlinker]_vars

----------------------------------------------------------------------------
(* The glider specification: the application started (main.js) on grids
   wide enough for the glider to travel MaxRun generations, run by hand and
   by the timer *)

GliderDims == {8, 9}

\* the glider of GameOfLifeApp.startApplication and Controls.getPatterns
Glider ==
    << <<FALSE, TRUE, FALSE>>,
       <<FALSE, FALSE, TRUE>>,
       <<TRUE, TRUE, TRUE>> >>

\* the application as its constructor leaves it: new GameOfLife, the audio
\* system and the callbacks attached, and startApplication()'s
\* game.loadPattern(glider)
InitGlider ==
    \E w \in GliderDims, h \in GliderDims :
      LET g == GridLoadPattern(NewGrid(w, h), Glider, FloorHalf(w - Len(Glider[1])),
                               FloorHalf(h - Len(Glider)))
      IN  /\ width = w
          /\ height = h
          /\ cells = g.cells
          /\ cellIds = g.ids
          /\ DisplayConstructed
          /\ generation = 0
          /\ isRunning = FALSE
          /\ intervalId = NullId
          /\ updateSpeed = InitialUpdateSpeed
          /\ timers = {}
          /\ onUpdate = TRUE
          /\ onStateChange = TRUE
          /\ audioSystem = TRUE
          /\ cellStateChanges = [births |-> <<>>, deaths |-> <<>>]
          /\ audioCalls = << >>
          /\ callbacks = << UpdateCall(0, g, FALSE) >>
          /\ op = Op("loadPattern")

NextGlider ==
    \/ RunStep
    \/ RunTick
    \/ Toggle

SpecGlider == InitGlider /\ [][NextGlider]_vars

----------------------------------------------------------------------------
(* The thermal specification: thermal fields drawn at varying intervals
   while cells are toggled and caching is switched off and on *)

ThermalDims == <<2, 1>>

\* the time between two readings of the clock: 0, 50 and 100 ms
ThermalDeltas == {0, 5000, 10000}

InitThermal == Constructed(ThermalDims[1], ThermalDims[2], TRUE, TRUE)

ThermalFrame == \E dt \in ThermalDeltas : DrawThermalField(dt)

SwitchCaching == \E enable \in BOOLEAN : UpdateSettings(enable)

NextThermal ==
    \/ ThermalFrame
    \/ SwitchCaching
    \/ ClearCache
    \/ EditToggleCell

SpecThermal == InitThermal /\ [][NextThermal]_vars

----------------------------------------------------------------------------
(* The render specification: the render loop calling Renderer.render at
   varying intervals while cells are toggled *)

RenderDims == <<2, 1>>

\* the time between two frames of the render loop: 0, 11.11 and 33.33 ms
RenderDeltas == {0, 1111, 3333}

InitRender == Constructed(RenderDims[1], RenderDims[2], TRUE, TRUE)

RenderLoopFrame == \E dt \in RenderDeltas : RenderFrame(dt)

NextRender ==
    \/ RenderLoopFrame
    \/ EditToggleCell

SpecRender == InitRender /\ [][NextRender]_vars

----------------------------------------------------------------------------
(* The purity specification: generations from every configuration of grids
   of up to 6 cells, each compared with the generation computed from grids
   with the same alive flags and other ages and pending next states *)

PureDims == {<<1, 1>>, <<2, 2>>, <<3, 2>>, <<2, 3>>}

InitPure ==
    \E d \in PureDims :
      \E draw \in RandomDraws(d[1], d[2]) :
        LET g == GridRandomize(NewGrid(d[1], d[2]), draw)
        IN  /\ width = d[1]
            /\ height = d[2]
            /\ cells = g.cells
            /\ cellIds = g.ids
            /\ DisplayConstructed
            /\ generation = 0
            /\ isRunning = FALSE
            /\ intervalId = NullId
            /\ updateSpeed = InitialUpdateSpeed
            /\ timers = {}
            /\ onUpdate = TRUE
            /\ onStateChange = TRUE
            /\ audioSystem = TRUE
            /\ cellStateChanges = [births |-> <<>>, deaths |-> <<>>]
            /\ audioCalls = << >>
            /\ callbacks = << UpdateCall(0, g, FALSE) >>
            /\ op = Op("randomize")

NextPure == Step

SpecPure == InitPure /\ [][NextPure]_vars

----------------------------------------------------------------------------
(* The ageing specification: every configuration of a 2 x 2 grid stepped
   through MaxAgeRun generations, a thermal field drawn now and then *)

AgeDims == <<2, 2>>

\* the time between two thermal fields: 100 ms
AgeDeltas == {10000}

InitAge ==
    \E draw \in RandomDraws(AgeDims[1], AgeDims[2]) :
      LET g == GridRandomize(NewGrid(AgeDims[1], AgeDims[2]), draw)
      IN  /\ width = AgeDims[1]
          /\ height = AgeDims[2]
          /\ cells = g.cells
          /\ cellIds = g.ids
          /\ DisplayConstructed
          /\ generation = 0
          /\ isRunning = FALSE
          /\ intervalId = NullId
          /\ updateSpeed = InitialUpdateSpeed
          /\ timers = {}
          /\ onUpdate = TRUE
          /\ onStateChange = TRUE
          /\ audioSystem = TRUE
          /\ cellStateChanges = [births |-> <<>>, deaths |-> <<>>]
          /\ audioCalls = << >>
          /\ callbacks = << UpdateCall(0, g, FALSE) >>
          /\ op = Op("randomize")

AgeFrame == \E dt \in AgeDeltas : DrawThermalField(dt)

NextAge ==
    \/ AgeStep
    \/ AgeFrame

SpecAge == InitAge /\ [][NextAge]_vars

----------------------------------------------------------------------------
(* Properties *)

StepNames == {"step", "tick"}

\* the positions of a w x h grid
Positions(w, h) == (0..(w - 1)) \X (0..(h - 1))

\* the in-grid Moore neighbours of (x, y): the positions of the grid other
\* than (x, y) itself at distance at most 1 in both coordinates
MooreNeighbours(w, h, x, y) ==
    {p \in Positions(w, h) :
        /\ p /= <<x, y>>
        /\ p[1] - x \in {-1, 0, 1}
        /\ p[2] - y \in {-1, 0, 1}}

LivingMoore(cs, w, h, x, y) ==
    Cardinality({p \in MooreNeighbours(w, h, x, y) : cs[p[2]][p[1]].alive})

\* the positions of a w x h grid in row-major scan order
RowMajor(w, h) == [k \in 1..(w * h) |-> [x |-> (k - 1) % w, y |-> (k - 1) \div w]]

\* the positions, in row-major order, whose cell is alive in one cell array
\* and not in the other
Flipped(deadIn, aliveIn, w, h) ==
    SelectSeq(RowMajor(w, h),
              LAMBDA p : ~deadIn[p.y][p.x].alive /\ aliveIn[p.y][p.x].alive)

\* C1: after one applyRules() a cell is alive iff it was alive with 2 or 3
\* living Moore neighbours, or dead with exactly 3, the neighbours counted on
\* the grid as it was before the call.
C1_RuleOnPreviousGrid ==
    [][op'.name \in StepNames =>
         \A p \in Positions(width, height) :
            LET was == cells[p[2]][p[1]].alive
                n == LivingMoore(cells, width, height, p[1], p[2])
            IN  cells'[p[2]][p[1]].alive <=>
                   ((was /\ n \in {2, 3}) \/ (~was /\ n = 3))]_vars

\* a generation on a 3 x 3 grid with a birth, a death and a survivor
C1_Witness ==
    /\ op.name \in StepNames
    /\ width = 3 /\ height = 3
    /\ Len(cellStateChanges.births) > 0
    /\ Len(cellStateChanges.deaths) > 0
    /\ \E p \in Positions(width, height) : cells[p[2]][p[1]].age >= 2

\* C6: getLivingNeighborCount(x, y) is the number of living cells among the
\* in-grid Moore neighbours of (x, y), for positions in the grid and around
\* it: it lies in 0..8, never counts (x, y) itself and never wraps around.
C6_NeighbourCount ==
    \A x \in -1..width, y \in -1..height :
       /\ GetLivingNeighborCount(TheGrid, x, y) = LivingMoore(cells, width, height, x, y)
       /\ GetLivingNeighborCount(TheGrid, x, y) \in 0..8

\* a lone living cell at (0, 0) of a 3 x 3 grid, counted 0 at its own position
C6_Witness ==
    /\ width = 3 /\ height = 3
    /\ cells[0][0].alive
    /\ GetPopulation(TheGrid) = 1
    /\ GetLivingNeighborCount(TheGrid, 0, 0) = 0
    /\ GetLivingNeighborCount(TheGrid, 2, 2) = 0

\* C7: after applyRules() births is exactly the row-major list of the
\* positions dead before and alive after, deaths the row-major list of those
\* alive before and dead after; nothing of earlier generations remains.
C7_ChangeLists ==
    [][op'.name \in StepNames =>
         /\ cellStateChanges'.births = Flipped(cells, cells', width, height)
         /\ cellStateChanges'.deaths = Flipped(cells', cells, width, height)]_vars

\* a second or later generation with births and deaths
C7_Witness ==
    /\ op.name \in StepNames
    /\ generation >= 2
    /\ Len(cellStateChanges.births) >= 2
    /\ Len(cellStateChanges.deaths) >= 2

\* C2: each applyRules() call (the step key or a timer tick) increases the
\* generation counter by exactly 1, and no other operation increases it.
C2_GenerationPerStep ==
    [][/\ op'.name \in StepNames => generation' = generation + 1
       /\ op'.name \notin StepNames => generation' <= generation]_vars

\* a timer tick has taken the counter to 2
C2_Witness ==
    /\ op.name = "tick"
    /\ generation = 2
    /\ isRunning

\* C3 as stated: the generation counter never decreases, whatever the
\* operation.
C3_NeverDecreases == [][generation' >= generation]_vars

\* C3 as amended: the generation counter never decreases under step, start,
\* stop, toggle, setSpeed, loadPattern, resizeGrid, toggleCell and
\* setCellState; reset and randomize set it to 0.
C3_DecreasesOnlyToZero ==
    [][IF op'.name \in {"reset", "randomize"}
       THEN generation' = 0
       ELSE generation' >= generation]_vars

\* reset has taken the counter back to 0 after a generation with deaths
C3_Witness ==
    /\ op.name = "reset"
    /\ generation = 0
    /\ Len(cellStateChanges.deaths) > 0

\* C4: in every state every cell has age 0 iff it is dead and age at least 1
\* iff it is alive.
C4_AgeZeroIffDead ==
    \A p \in Positions(width, height) :
       LET cell == cells[p[2]][p[1]]
       IN  /\ cell.age >= 0
           /\ cell.age = 0 <=> ~cell.alive
           /\ cell.age >= 1 <=> cell.alive

\* a grid just resized that holds a dead cell and a cell alive for more than
\* one generation
C4_Witness ==
    /\ op.name = "resizeGrid"
    /\ \E p \in Positions(width, height) : cells[p[2]][p[1]].age >= 2
    /\ \E p \in Positions(width, height) : ~cells[p[2]][p[1]].alive

\* C5: a cell that becomes alive has age 1, and the age of a cell that stays
\* alive counts its consecutive generations alive: a generation adds 1 to it
\* and a user edit (setCellState, toggleCell, loadPattern) that leaves the
\* cell alive leaves it as it is.  (reset and randomize start the count of
\* generations again and are left out.)
C5_AgeCountsGenerations ==
    [][op'.name \in StepNames \cup {"setCellState", "toggleCell", "loadPattern"} =>
         \A p \in Positions(width, height) :
            LET before == cells[p[2]][p[1]]
                after == cells'[p[2]][p[1]]
            IN  /\ (~before.alive /\ after.alive) => after.age = 1
                /\ (before.alive /\ after.alive) =>
                      after.age = before.age
                                  + (IF op'.name \in StepNames THEN 1 ELSE 0)]_vars

\* the elements of a sequence
Range(seq) == {seq[i] : i \in 1..Len(seq)}

\* C8 as stated: with an audio system attached, every generation makes
\* exactly one call on it, carrying the complete births list in the order
\* recorded.
C8_CompleteListEveryGeneration ==
    (op.name \in StepNames /\ audioSystem) =>
        /\ Len(audioCalls) = 1
        /\ audioCalls[1].cells = cellStateChanges.births

\* C8 as amended: with an audio system attached, a generation with no birth
\* makes no call; a generation with 1 to 8 births makes exactly one call
\* carrying the complete births list in the order recorded (playCellSound for
\* one birth, playArpeggio otherwise); a generation with more than 8 births
\* makes exactly one playArpeggio call carrying 8 distinct positions born in
\* this generation, in no particular order.
C8_ListUpToEightBirths ==
    (op.name \in StepNames /\ audioSystem) =>
        LET births == cellStateChanges.births
            n == Len(births)
        IN  /\ n = 0 => audioCalls = << >>
            /\ n = 1 => audioCalls = << [method |-> "playCellSound", cells |-> births] >>
            /\ n \in 2..8 => audioCalls = << [method |-> "playArpeggio", cells |-> births] >>
            /\ n > 8 =>
                  /\ Len(audioCalls) = 1
                  /\ audioCalls[1].method = "playArpeggio"
                  /\ Len(audioCalls[1].cells) = 8
                  /\ Cardinality(Range(audioCalls[1].cells)) = 8
                  /\ Range(audioCalls[1].cells) \subseteq Range(births)

\* a generation with more than 8 births whose call does not carry the first
\* 8 of them in the order recorded
C8_Witness ==
    /\ op.name \in StepNames
    /\ audioSystem
    /\ Len(cellStateChanges.births) > 8
    /\ Len(audioCalls) = 1
    /\ audioCalls[1].cells /= SubSeq(cellStateChanges.births, 1, 8)

\* C9: getCell returns no cell for a position outside the grid, and
\* setCellState and toggleCell at such a position leave every cell (alive,
\* age, pending next state) and the dimensions as they are.
C9_OutOfRangeNoOp ==
    /\ [](\A x \in -1..width, y \in -1..height :
            ~(x \in 0..(width - 1) /\ y \in 0..(height - 1))
               => GetCell(TheGrid, x, y) = NoCell)
    /\ [][(op'.name \in {"setCellState", "toggleCell"} /\ op'.oob) =>
             (cells' = cells /\ width' = width /\ height' = height)]_vars

\* toggleCell outside a grid that holds a living cell
C9_Witness ==
    /\ op.name = "toggleCell"
    /\ op.oob
    /\ GetPopulation(TheGrid) > 0

\* C10: after resize every cell inside both the old and the new extent has
\* the alive flag and the age it had, and every other cell is dead with age
\* 0; so after 10 x 10 -> 5 x 5 -> 10 x 10 every cell outside the 5 x 5 corner
\* is dead.
C10_ResizeKeepsIntersection ==
    /\ [][op'.name = "resizeGrid" =>
             \A p \in Positions(width', height') :
                LET after == cells'[p[2]][p[1]]
                IN  IF p \in Positions(width, height)
                    THEN /\ after.alive = cells[p[2]][p[1]].alive
                         /\ after.age = cells[p[2]][p[1]].age
                    ELSE ~after.alive /\ after.age = 0]_vars
    /\ []((op.name = "resizeGrid" /\ op.from = <<5, 5>>) =>
             \A p \in Positions(width, height) \ Positions(5, 5) :
                ~cells[p[2]][p[1]].alive /\ cells[p[2]][p[1]].age = 0)

\* the grid grown back to 10 x 10 right after a shrink to 5 x 5 that dropped
\* living cells, a cell of the corner still alive at age 2
C10_Witness ==
    /\ op.name = "resizeGrid"
    /\ op.afterLoss
    /\ op.from = <<5, 5>>
    /\ width = 10 /\ height = 10
    /\ cells[1][1].alive /\ cells[1][1].age = 2

\* C11: Grid.loadPattern(pattern, startX, startY), for any boolean matrix and
\* any origin: every cell of the grid covered by the matrix ends with the
\* alive flag the matrix gives it, every cell the matrix does not cover is
\* left exactly as it was, and the dimensions of the grid do not change
\* (entries outside the grid are skipped).
C11_LoadPatternFrame ==
    [][op'.name = "loadPatternAt" =>
         LET pattern == op'.arg[1]
             startX == op'.arg[2]
             startY == op'.arg[3]
         IN  /\ width' = width /\ height' = height
             /\ \A p \in Positions(width, height) :
                  LET i == p[1] - startX
                      j == p[2] - startY
                  IN  IF i \in 0..(Len(pattern[1]) - 1) /\ j \in 0..(Len(pattern) - 1)
                      THEN cells'[p[2]][p[1]].alive = pattern[j + 1][i + 1]
                      ELSE cells'[p[2]][p[1]] = cells[p[2]][p[1]]]_vars

\* a 2 x 2 pattern loaded at a negative origin, so that part of it falls
\* outside the grid, has killed the cell at (0, 0) of a grid that still holds
\* an uncovered cell that lived through a generation
C11_Witness ==
    /\ op.name = "loadPatternAt"
    /\ Len(op.arg[1]) = 2 /\ Len(op.arg[1][1]) = 2
    /\ op.arg[2] = -1 /\ op.arg[3] = -1
    /\ ~op.arg[1][2][2] /\ ~cells[0][0].alive
    /\ \E p \in Positions(width, height) : cells[p[2]][p[1]].age >= 2


\* C12: in every reachable state the cell array has exactly height rows of
\* exactly width cells, each entry is a Cell, and no Cell object sits at two
\* coordinates.
C12_OneCellPerCoordinate ==
    /\ DOMAIN cells = 0..(height - 1)
    /\ DOMAIN cellIds = 0..(height - 1)
    /\ \A y \in 0..(height - 1) :
         /\ DOMAIN cells[y] = 0..(width - 1)
         /\ DOMAIN cellIds[y] = 0..(width - 1)
         /\ \A x \in 0..(width - 1) :
              /\ DOMAIN cells[y][x] = {"alive", "age", "nextState"}
              /\ cells[y][x].alive \in BOOLEAN
    /\ \A p \in Positions(width, height), q \in Positions(width, height) :
         p /= q => cellIds[p[2]][p[1]] /= cellIds[q[2]][q[1]]

\* the grid grown from 2 x 1 to 2 x 2 by a resize that cloned a living cell
\* into the new array
C12_Witness ==
    /\ op.name = "resizeGrid"
    /\ op.from = <<2, 1>>
    /\ width = 2 /\ height = 2
    /\ cells[0][1].alive

\* C13: a Grid with a zero or negative dimension is rejected at
\* construction: no state holds a grid whose width or height is below 1, and
\* no generation is ever computed on such a grid.
C13_InvalidDimensionsRejected ==
    /\ width >= 1 /\ height >= 1
    /\ op.name \in StepNames => (width >= 1 /\ height >= 1)

\* the positions of the living cells of a cell array
LivingSet(cs, w, h) == {p \in Positions(w, h) : cs[p[2]][p[1]].alive}

\* the horizontal blinker as Controls.loadPattern centres it in a w x h grid,
\* its centre, and the vertical column through the same centre
BlinkerCentre(w, h) == <<((w - 3) \div 2) + 1, (h - 1) \div 2>>
BlinkerRow(w, h) ==
    LET c == BlinkerCentre(w, h)
    IN  {<<c[1] - 1, c[2]>>, c, <<c[1] + 1, c[2]>>}
BlinkerColumn(w, h) ==
    LET c == BlinkerCentre(w, h)
    IN  {<<c[1], c[2] - 1>>, c, <<c[1], c[2] + 1>>}

\* a set of positions turned by a quarter turn about the position c
Rotated(S, c) == {<<c[1] - (p[2] - c[2]), c[2] + (p[1] - c[1])>> : p \in S}

\* C14: the blinker loaded from the pattern menu is the horizontal row
\* through the centre; from the row or the column every generation gives the
\* quarter turn of the living set about the centre, which is again the row or
\* the column, and one generation more gives back the living set it started
\* from; nothing but a generation or a pattern load changes the living set.
C14_BlinkerPeriodTwo ==
    [][LET L == LivingSet(cells, width, height)
           L1 == LivingSet(cells', width, height)
           L2 == LivingSet(ApplyRulesGrid(TheGrid', cellStateChanges').grid.cells,
                           width, height)
           row == BlinkerRow(width, height)
           column == BlinkerColumn(width, height)
       IN  /\ op'.name = "controlsLoadPattern" => L1 = row
           /\ (op'.name \in StepNames /\ L \in {row, column}) =>
                 /\ L1 = Rotated(L, BlinkerCentre(width, height))
                 /\ L1 \in {row, column} /\ L1 /= L
                 /\ L2 = L
           /\ op'.name = "toggle" => L1 = L]_vars

\* the timer has just computed generation 6 of a blinker: the row through
\* the centre is alive again and its middle cell has lived all 6 generations
C14_Witness ==
    /\ op.name = "tick"
    /\ generation = 6
    /\ LivingSet(cells, width, height) = BlinkerRow(width, height)
    /\ cells[BlinkerCentre(width, height)[2]][BlinkerCentre(width, height)[1]].age = 7
    /\ width = 5 /\ height = 6

\* the living cells of the glider as loadPattern centres it in a w x h grid
GliderStart(w, h) ==
    LET sx == (w - 3) \div 2
        sy == (h - 3) \div 2
    IN  {<<sx + 1, sy>>, <<sx + 2, sy + 1>>,
         <<sx, sy + 2>>, <<sx + 1, sy + 2>>, <<sx + 2, sy + 2>>}

\* a set of positions moved by (dx, dy)
Translated(S, dx, dy) == {<<p[1] + dx, p[2] + dy>> : p \in S}

\* C15: with the glider loaded at start-up, at every generation 4k the living set is
\* the loaded glider moved by (+k, +k) and the population is 5.
C15_GliderTranslates ==
    generation % 4 = 0 =>
        /\ LivingSet(cells, width, height) =
              Translated(GliderStart(width, height), generation \div 4,
                         generation \div 4)
        /\ GetPopulation(TheGrid) = 5

\* the timer has just computed generation 8: the glider has moved by (2, 2)
C15_Witness ==
    /\ op.name = "tick"
    /\ generation = 8
    /\ width = 8 /\ height = 9
    /\ cells[5][5].alive /\ cells[5][5].age = 1
    /\ LivingSet(cells, width, height) = Translated(GliderStart(8, 9), 2, 2)

\* the condition under which C16 says createThermalField, called at time t,
\* returns the cached field: caching enabled, a field stored, fewer than
\* cacheLifetime frames since it was built, less than 100 ms since its build
C16Fresh(t) ==
    /\ thermal.enableCaching
    /\ thermal.lastFieldData /= NoField
    /\ thermal.framesSinceUpdate < CacheLifetime
    /\ t - thermal.lastFieldData.builtAt < CacheMaxAge

\* what C16 says of a cache hit: the stored object is returned as it is,
\* the frame counter goes up by one, and the object has been served at most
\* cacheLifetime times and is less than 100 ms old
C16Hit ==
    /\ ~thermal'.rebuilt
    /\ thermal'.returned = thermal.lastFieldData
    /\ thermal'.lastFieldData = thermal.lastFieldData
    /\ thermal'.lastUpdateTime = thermal.lastUpdateTime
    /\ thermal'.framesSinceUpdate = thermal.framesSinceUpdate + 1
    /\ thermal'.served <= CacheLifetime
    /\ now' - thermal'.returned.builtAt < CacheMaxAge

\* what C16 says of a rebuild: a new field is built from the grid at the time
\* of the call, the frame counter is reset to 0 and the build time recorded
C16Rebuild ==
    /\ thermal'.rebuilt
    /\ thermal'.returned = [heat |-> CellHeats(TheGrid), builtAt |-> now']
    /\ thermal'.lastFieldData = thermal'.returned
    /\ thermal'.framesSinceUpdate = 0
    /\ thermal'.lastUpdateTime = now'

\* C16 as stated: createThermalField returns the cached field exactly under
\* the four conditions; each hit increments framesSinceUpdate and each
\* rebuild resets it to 0 and records the build time.
C16_CacheRule ==
    [][op'.name = "drawThermalField" =>
         IF C16Fresh(now') THEN C16Hit ELSE C16Rebuild]_vars

\* C16 amended: the same, but only a rebuild made while caching is enabled
\* stores the field, resets the frame counter and records the build time; a
\* rebuild made while caching is disabled returns the new field and leaves
\* the stored field, the frame counter and the build time as they were.
C16_CacheRuleWhenEnabled ==
    [][op'.name = "drawThermalField" =>
         IF C16Fresh(now') THEN C16Hit
         ELSE IF thermal.enableCaching THEN C16Rebuild
         ELSE /\ thermal'.rebuilt
              /\ thermal'.returned = [heat |-> CellHeats(TheGrid), builtAt |-> now']
              /\ thermal'.lastFieldData = thermal.lastFieldData
              /\ thermal'.framesSinceUpdate = thermal.framesSinceUpdate
              /\ thermal'.lastUpdateTime = thermal.lastUpdateTime]_vars

\* the third hit in a row on a stored field, 50 ms after it was built
C16_Witness ==
    /\ op.name = "drawThermalField"
    /\ ~thermal.rebuilt
    /\ thermal.framesSinceUpdate = CacheLifetime
    /\ thermal.served = CacheLifetime
    /\ thermal.returned = thermal.lastFieldData
    /\ now - thermal.returned.builtAt = 5000

\* C17: a call of createThermalField never returns a field built from a
\* living set other than the one of the grid it is given: after the grid
\* changes the cached field is discarded and a new one built.
C17_StaleFieldDiscarded ==
    op.name = "drawThermalField" =>
        {p \in Positions(width, height) : thermal.returned.heat[p[2]][p[1]] > 0}
           = LivingSet(cells, width, height)

\* C18: a render call made less than 33.33 ms after the last call that drew
\* draws nothing and leaves lastFrameTime alone; a call that draws does so at
\* least 33.33 ms after the last call that drew; lastFrameTime changes only
\* in a call that draws, and is then the time of that call.
C18_RenderThrottle ==
    [][LET last == renderer.canvas
       IN  /\ op'.name = "render" =>
                /\ renderer'.lastCall \in {"drawn", "skipped"}
                /\ (last /= NoFrame /\ now' - last.at < FrameInterval) =>
                      /\ renderer'.lastCall = "skipped"
                      /\ renderer'.canvas = renderer.canvas
                      /\ renderer'.lastFrameTime = renderer.lastFrameTime
                /\ renderer'.lastCall = "skipped" =>
                      /\ renderer'.canvas = renderer.canvas
                      /\ renderer'.lastFrameTime = renderer.lastFrameTime
                /\ renderer'.lastCall = "drawn" =>
                      /\ last /= NoFrame => now' - last.at >= FrameInterval
                      /\ renderer'.canvas = [at |-> now', cells |-> cells]
                      /\ renderer'.lastFrameTime = now'
           /\ op'.name /= "render" => renderer' = renderer]_vars

\* a frame of the loop skipped 22.22 ms after the last one that drew, the
\* canvas still showing the grid as it was then although a cell was toggled
C18_Witness ==
    /\ op.name = "render"
    /\ renderer.lastCall = "skipped"
    /\ renderer.canvas /= NoFrame
    /\ now - renderer.canvas.at = 2222
    /\ renderer.lastFrameTime = renderer.canvas.at
    /\ renderer.canvas.cells /= cells

\* the ages given to the cells of the second grid: all 1, all 7, or varying
\* from cell to cell
AgeVariants(w, h) ==
    { [y \in 0..(h - 1) |-> [x \in 0..(w - 1) |-> 1]],
      [y \in 0..(h - 1) |-> [x \in 0..(w - 1) |-> 7]],
      [y \in 0..(h - 1) |-> [x \in 0..(w - 1) |-> 1 + x + 2 * y]],
      [y \in 0..(h - 1) |-> [x \in 0..(w - 1) |-> (x + y) % 2]] }

\* the grid g with its alive flags kept and the given pending next states
\* and ages
SameAlive(g, pending, ages) ==
    [g EXCEPT !.cells =
        [y \in 0..(g.height - 1) |->
           [x \in 0..(g.width - 1) |->
              [alive |-> g.cells[y][x].alive, nextState |-> pending[y][x],
               age |-> ages[y][x]]]]]

\* C19: applyRules on any grid with the same dimensions and alive flags as
\* the stepped grid, whatever its ages and pending next states, is defined
\* and gives the same alive configuration and the same births and deaths
\* lists as the step did.
C19_StepPureInAlive ==
    [][op'.name \in StepNames =>
         \A pending \in [0..(height - 1) -> [0..(width - 1) -> BOOLEAN]] :
           \A ages \in AgeVariants(width, height) :
             LET res == ApplyRulesGrid(SameAlive(TheGrid, pending, ages),
                                       cellStateChanges)
             IN  /\ LivingSet(res.grid.cells, width, height)
                      = LivingSet(cells', width, height)
                 /\ res.changes = cellStateChanges']_vars

\* a generation in which a cell was born, a cell died and a cell survived
C19_Witness ==
    /\ op.name \in StepNames
    /\ generation = 1
    /\ cellStateChanges.births /= << >>
    /\ cellStateChanges.deaths /= << >>
    /\ \E p \in Positions(width, height) : cells[p[2]][p[1]].age = 2

\* a living cell after it has survived one more generation
Survived(cell) == CellUpdate(CellSetNextState(cell, TRUE))

\* a newly-born cell contributes strictly more heat than a cell of age 1
\* would without the bonus for newborn cells (1.0 plus the age bonus)
NewbornHotter(cell) ==
    (cell.alive /\ cell.age = 1) => CalculateCellHeat(cell) > 100 + AgeBonus(cell)

\* C20 as stated: for every living cell of age 1 to 19, surviving one more
\* generation does not decrease its heat; a cell of age 20 is hotter than
\* the same cell at age 1; a newborn cell is hotter than it would be without
\* the newborn bonus.
C20_HeatMonotoneInAge ==
    \A p \in Positions(width, height) :
      LET cell == cells[p[2]][p[1]]
      IN  /\ (cell.alive /\ cell.age \in 1..19) =>
                 CalculateCellHeat(Survived(cell)) >= CalculateCellHeat(cell)
          /\ (cell.alive /\ cell.age = 20) =>
                 CalculateCellHeat(cell) > CalculateCellHeat([cell EXCEPT !.age = 1])
          /\ NewbornHotter(cell)

\* C20 amended: for every living cell of age 2 to 19, surviving one more
\* generation does not decrease its heat; a cell of age 20 is hotter than the
\* same cell at age 2; a newborn cell is hotter than it would be without the
\* newborn bonus, and its heat drops when it survives to age 2.
C20_HeatMonotoneAfterNewborn ==
    \A p \in Positions(width, height) :
      LET cell == cells[p[2]][p[1]]
      IN  /\ (cell.alive /\ cell.age \in 2..19) =>
                 CalculateCellHeat(Survived(cell)) >= CalculateCellHeat(cell)
          /\ (cell.alive /\ cell.age = 20) =>
                 CalculateCellHeat(cell) > CalculateCellHeat([cell EXCEPT !.age = 2])
          /\ NewbornHotter(cell)
          /\ (cell.alive /\ cell.age = 1) =>
                 CalculateCellHeat(Survived(cell)) < CalculateCellHeat(cell)

\* a thermal field built from a block whose cells have reached age 20: each
\* of them contributes the heat 1.5
C20_Witness ==
    /\ op.name = "drawThermalField"
    /\ thermal.rebuilt
    /\ cells[0][0].alive /\ cells[0][0].age = 20
    /\ thermal.returned.heat[0][0] = 150


----------------------------------------------------------------------------
(* ThermalFieldRenderer.getThermalColor: the colour ramp.                   *)
(* Normalised temperatures and alpha are in ten-thousandths (1.0 = 10000);   *)
(* r, g, b are the integers the code gets from Math.floor.                  *)

TempOne == 10000

\* the band boundaries 0.1, 0.3, 0.5, 0.8
BandBoundaries == {1000, 3000, 5000, 8000}

\* temp < 0.1: deep purple/black; transparent up to 0.01
ColorBand1(temp) ==
    [r |-> (temp * 200) \div TempOne,
     g |-> 0,
     b |-> (temp * 400) \div TempOne,
     a |-> IF temp > 100 THEN 8000 ELSE 0]

\* 0.1 <= temp < 0.3: purple to blue, t = (temp - 0.1) / 0.2
ColorBand2(temp) ==
    [r |-> (20 * 2000 + (temp - 1000) * 80) \div 2000,
     g |-> 0,
     b |-> (40 * 2000 + (temp - 1000) * 120) \div 2000,
     a |-> 8000 + (temp - 1000)]

\* a ramp whose third band starts 20 too red
ColorBand3Shifted(temp) ==
    [r |-> (120 * 2000 + (temp - 3000) * 120) \div 2000,
     g |-> ((temp - 3000) * 60) \div 2000,
     b |-> (160 * 2000 - (temp - 3000) * 140) \div 2000,
     a |-> TempOne]

\* 0.3 <= temp < 0.5: blue to red, t = (temp - 0.3) / 0.2
ColorBand3(temp) ==
    [r |-> (100 * 2000 + (temp - 3000) * 120) \div 2000,
     g |-> ((temp - 3000) * 60) \div 2000,
     b |-> (160 * 2000 - (temp - 3000) * 140) \div 2000,
     a |-> TempOne]

\* 0.5 <= temp < 0.8: red to orange, t = (temp - 0.5) / 0.3
ColorBand4(temp) ==
    [r |-> (220 * 3000 + (temp - 5000) * 35) \div 3000,
     g |-> (60 * 3000 + (temp - 5000) * 140) \div 3000,
     b |-> (20 * 3000 - (temp - 5000) * 20) \div 3000,
     a |-> TempOne]

\* temp >= 0.8: orange to yellow/white, t = (temp - 0.8) / 0.2
ColorBand5(temp) ==
    [r |-> 255,
     g |-> (200 * 2000 + (temp - 8000) * 55) \div 2000,
     b |-> ((temp - 8000) * 150) \div 2000,
     a |-> TempOne]

\* getThermalColor(normalizedTemp, colorManager)
GetThermalColor(normalizedTemp) ==
    LET temp == Max(0, Min(TempOne, normalizedTemp))
    IN  IF temp < 1000 THEN ColorBand1(temp)
        ELSE IF temp < 3000 THEN ColorBand2(temp)
        ELSE IF temp < 5000 THEN ColorBand3(temp)
        ELSE IF temp < 8000 THEN ColorBand4(temp)
        ELSE ColorBand5(temp)

\* renderThermalField: pixels[pixelIdx + 3] = Math.floor(color.a * 255)
AlphaByte(color) == (color.a * 255) \div TempOne

\* one call of getThermalColor, as renderThermalField makes for each pixel
LookUpColor(normalizedTemp) ==
    /\ pixel' = [stage |-> "color", temp |-> normalizedTemp,
                 color |-> GetThermalColor(normalizedTemp)]
    /\ op' = Op("getThermalColor")
    /\ UNCHANGED <<now, renderer, thermal, field, task>>
    /\ EngineUnchanged

\* the temperatures looked up: a sweep of the ramp and beyond both ends, and
\* the neighbourhood of every band boundary and of both ends
NearBoundary == 3

ColorTemps ==
    {t \in -500 .. TempOne + 500 : t % 100 = 0}
    \cup {t \in -500 .. TempOne + 500 :
            \E c \in BandBoundaries \cup {0, 100, TempOne} :
                t - c \in -NearBoundary .. NearBoundary}

ColorDims == <<2, 1>>

InitColor == Constructed(ColorDims[1], ColorDims[2], FALSE, FALSE)

NextColor == \E t \in ColorTemps : LookUpColor(t)

SpecColor == InitColor /\ [][NextColor]_vars

Abs(n) == IF n < 0 THEN -n ELSE n

\* two colours differ by no more than one rounding step in every channel
OneStepApart(c, d) ==
    /\ Abs(c.r - d.r) <= 1
    /\ Abs(c.g - d.g) <= 1
    /\ Abs(c.b - d.b) <= 1
    /\ Abs(AlphaByte(c) - AlphaByte(d)) <= 1

\* C21: the colour ramp is continuous at the band boundaries 0.1, 0.3, 0.5
\* and 0.8 (the colour just below a boundary, given by the lower band, is
\* within one rounding step of the colour at the boundary, given by the
\* upper band), inputs outside [0,1] get the colour of the nearer endpoint,
\* every r, g, b is in 0..255, and the endpoints are black transparent
\* (0,0,0,0) and (255,255,150) opaque.
C21_ColorRampContinuous ==
    pixel.stage = "color" =>
        /\ pixel.color.r \in 0 .. 255
        /\ pixel.color.g \in 0 .. 255
        /\ pixel.color.b \in 0 .. 255
        /\ pixel.color.a \in 0 .. TempOne
        /\ pixel.temp + 1 \in BandBoundaries =>
              OneStepApart(pixel.color, GetThermalColor(pixel.temp + 1))
        /\ pixel.temp <= 0 =>
              pixel.color = [r |-> 0, g |-> 0, b |-> 0, a |-> 0]
        /\ pixel.temp >= TempOne =>
              pixel.color = [r |-> 255, g |-> 255, b |-> 150, a |-> TempOne]

\* a colour just below 0.3 was looked up: the purple-to-blue band gives
\* (99, 0, 159) where the blue-to-red band starts at (100, 0, 160)
C21_Witness ==
    /\ pixel.stage = "color"
    /\ pixel.temp = 2999
    /\ pixel.color.r = 99
    /\ pixel.color.b = 159
    /\ GetThermalColor(3000).r = 100


----------------------------------------------------------------------------
(* The two phases of applyRules *)

\* the grid as the compute phase leaves it, before the commit phase starts
Computed == ComputePhase(TheGrid, 0)

\* C22: the compute phase of applyRules changes no cell's alive flag or age
\* and replaces no cell; it writes only the pending next state, which for
\* every cell, the last one scanned included, is the rule applied to the
\* neighbour count on the grid as it was before the call; the commit phase
\* then works on the grid with every pending state computed: each cell ends
\* with the state that was pending for it.
C22_ComputeWritesOnlyPending ==
    /\ [](\A p \in Positions(width, height) :
            LET before == cells[p[2]][p[1]]
                mid == Computed.cells[p[2]][p[1]]
                n == LivingMoore(cells, width, height, p[1], p[2])
            IN  /\ mid.alive = before.alive
                /\ mid.age = before.age
                /\ mid.nextState = NextStateRule(before.alive, n)
                /\ Computed.ids = cellIds
                /\ Computed.width = width /\ Computed.height = height)
    /\ [][op'.name \in StepNames =>
             \A p \in Positions(width, height) :
                /\ cells'[p[2]][p[1]].alive = Computed.cells[p[2]][p[1]].nextState
                /\ cells'[p[2]][p[1]].nextState = Computed.cells[p[2]][p[1]].nextState]_vars

\* a generation applied on a 3 x 3 grid with births and deaths, after which
\* the next compute phase has a pending flip for the last cell scanned and
\* for one of its neighbours
C22_Witness ==
    /\ op.name \in StepNames
    /\ width = 3 /\ height = 3
    /\ Len(cellStateChanges.births) > 0
    /\ Len(cellStateChanges.deaths) > 0
    /\ Computed.cells[2][2].nextState /= cells[2][2].alive
    /\ Computed.cells[1][1].nextState /= cells[1][1].alive

\* C23: in the commit phase of applyRules a cell that was alive and stays
\* alive ages by exactly 1, whatever its age; a cell that was dead and
\* becomes alive gets age 1; a cell that is dead afterwards gets age 0.
C23_CommitAges ==
    [][op'.name \in StepNames =>
         \A p \in Positions(width, height) :
            LET before == cells[p[2]][p[1]]
                after == cells'[p[2]][p[1]]
            IN  /\ (before.alive /\ after.alive) => after.age = before.age + 1
                /\ (~before.alive /\ after.alive) => after.age = 1
                /\ ~after.alive => after.age = 0]_vars

\* the 2 x 2 block after 20 generations: every cell has survived them all
\* and is 21 generations old
C23_Witness ==
    /\ op.name \in StepNames
    /\ generation = 20
    /\ \A p \in Positions(width, height) :
          cells[p[2]][p[1]].alive /\ cells[p[2]][p[1]].age = 21

----------------------------------------------------------------------------
(* The passes of the ThermalFieldRenderer over a temperature field.         *)
(* A field is a function from the indexes 0 .. width * height - 1 of the     *)
(* Float32Array (index = y * width + x) to temperatures in ten-thousandths.  *)

\* settings.heatDiffusion = 0.08 and settings.temperatureDecay = 0.95, in
\* hundredths
HeatDiffusion == 8
TemperatureDecay == 95

\* applyThermalDiffusion(field, width, height): newField starts as a zeroed
\* Float32Array, the loops fill its interior points, and the whole of it is
\* copied back over field
ApplyThermalDiffusion(f, w, h) ==
    [i \in DOMAIN f |->
        LET x == i % w
            y == i \div w
        IN  IF x \in 1 .. (w - 2) /\ y \in 1 .. (h - 2)
            THEN LET center == f[i]
                     north == f[(y - 1) * w + x]
                     south == f[(y + 1) * w + x]
                     east == f[y * w + (x + 1)]
                     west == f[y * w + (x - 1)]
                     laplacian == north + south + east + west - 4 * center
                 IN  ((100 * center + HeatDiffusion * laplacian) * TemperatureDecay)
                        \div 10000
            ELSE 0]

\* no range has been calculated for the field
NoRange == [stage |-> "none"]

\* the last step of createThermalField modelled here: the diffusion pass over
\* the field that mapCellsToThermalField filled
DiffuseField ==
    /\ field.stage = "mapped"
    /\ field' = [field EXCEPT
                    !.stage = "diffused",
                    !.before = field.data,
                    !.data = ApplyThermalDiffusion(field.data, field.width, field.height)]
    /\ op' = Op("applyThermalDiffusion")
    /\ UNCHANGED <<now, renderer, thermal, pixel, task>>
    /\ EngineUnchanged

\* the 0.1 by which calculateTemperatureRange widens an empty range
RangeWiden == 1000

\* the least and the greatest of a non-empty set of temperatures
Least(vals) == CHOOSE v \in vals : \A u \in vals : v <= u
Greatest(vals) == CHOOSE v \in vals : \A u \in vals : u <= v

\* calculateTemperatureRange without the widening of an empty range
CalculateTemperatureRangeAsFound(f) ==
    LET vals == {f[i] : i \in DOMAIN f}
    IN  [min |-> Least(vals), max |-> Greatest(vals)]

\* calculateTemperatureRange(field), for a field with at least one point
CalculateTemperatureRange(f) ==
    LET vals == {f[i] : i \in DOMAIN f}
        min == Least(vals)
        max == Greatest(vals)
    IN  [min |-> min, max |-> IF max <= min THEN min + RangeWiden ELSE max]

\* renderThermalField: (temp - tempRange.min) / (tempRange.max - tempRange.min),
\* a division of floating-point numbers: 0 / 0 is NaN and v / 0 is Infinity
NormalizedTemp(temp, tempRange) ==
    IF tempRange.max - tempRange.min = 0
    THEN (IF temp - tempRange.min = 0 THEN "NaN" ELSE "Infinity")
    ELSE ((temp - tempRange.min) * TempOne) \div (tempRange.max - tempRange.min)

\* renderThermalField(ctx, fieldData, colorManager) as far as the
\* temperatures go: the range of the field, then the normalised temperature
\* of every point of it. The Gaussian blur between the diffusion pass and
\* the rendering is not modelled: the range is taken of the field as it is.
RenderThermalField ==
    /\ field.stage \in {"mapped", "diffused"}
    /\ LET tempRange == CalculateTemperatureRange(field.data)
       IN  field' = [field EXCEPT
                        !.stage = "rendered",
                        !.range = tempRange,
                        !.normalized = [i \in DOMAIN field.data |->
                                           NormalizedTemp(field.data[i], tempRange)]]
    /\ op' = Op("renderThermalField")
    /\ UNCHANGED <<now, renderer, thermal, pixel, task>>
    /\ EngineUnchanged

\* the temperatures of the points of the fields drawn
FieldValues == {0, 10000, 15000}
WideFieldValues == {0, 15000}

\* the dimensions of the fields drawn with FieldValues and with
\* WideFieldValues
FieldDims == {<<1, 1>>, <<2, 1>>, <<3, 3>>}
WideFieldDims == {<<4, 3>>}

\* a field as mapCellsToThermalField leaves it
MappedField(w, h, data) ==
    [stage |-> "mapped", width |-> w, height |-> h, before |-> data, data |-> data,
     range |-> NoRange, normalized |-> << >>]

FieldsOf(dims, values) ==
    UNION {{MappedField(d[1], d[2], data) :
               data \in [0 .. (d[1] * d[2] - 1) -> values]} : d \in dims}

FieldGridDims == <<2, 1>>

InitField ==
    /\ width = FieldGridDims[1]
    /\ height = FieldGridDims[2]
    /\ cells = CreateEmptyGrid(FieldGridDims[1], FieldGridDims[2])
    /\ cellIds = CreateEmptyIds(FieldGridDims[1], FieldGridDims[2], 1)
    /\ now = 0
    /\ renderer = NewRenderer
    /\ thermal = NewThermal
    /\ pixel = NoPixel
    /\ task = IdleTask
    /\ field \in FieldsOf(FieldDims, FieldValues) \cup FieldsOf(WideFieldDims, WideFieldValues)
    /\ generation = 0
    /\ isRunning = FALSE
    /\ intervalId = NullId
    /\ updateSpeed = InitialUpdateSpeed
    /\ timers = {}
    /\ onUpdate = FALSE
    /\ onStateChange = FALSE
    /\ audioSystem = FALSE
    /\ cellStateChanges = [births |-> <<>>, deaths |-> <<>>]
    /\ audioCalls = << >>
    /\ callbacks = << >>
    /\ op = Op("mapCellsToThermalField")

NextField ==
    \/ DiffuseField
    \/ RenderThermalField

SpecField == InitField /\ [][NextField]_vars

\* the indexes of the outermost 1-cell border of a w x h field
BorderIndexes(w, h) ==
    {i \in 0 .. (w * h - 1) :
        i % w \in {0, w - 1} \/ i \div w \in {0, h - 1}}

\* C24 as stated: the diffusion pass leaves the border of the field
\* untouched: for every field of width and height at least 3, every point of
\* the outermost 1-cell border has the same value after applyThermalDiffusion
\* as before it.
C24_BorderUntouched ==
    (field.stage = "diffused" /\ field.width >= 3 /\ field.height >= 3) =>
        \A i \in BorderIndexes(field.width, field.height) :
            field.data[i] = field.before[i]

\* the temperatures found in a field
Temperatures(f) == {f[i] : i \in DOMAIN f}

\* C26: for every non-empty field calculateTemperatureRange returns max
\* strictly greater than min; min is the least temperature of the field; max
\* is the greatest one when the field holds different temperatures and
\* min + 0.1 when it is uniform; so every normalised temperature is a number
\* from 0 to 1 and no division by zero takes place.
C26_RangeNeverEmpty ==
    field.stage = "rendered" =>
        LET vals == Temperatures(field.data)
            r == field.range
        IN  /\ r.max > r.min
            /\ r.min \in vals /\ \A v \in vals : r.min <= v
            /\ Cardinality(vals) > 1 => (r.max \in vals /\ \A v \in vals : v <= r.max)
            /\ Cardinality(vals) = 1 => r.max = r.min + RangeWiden
            /\ \A i \in DOMAIN field.data : field.normalized[i] \in 0 .. TempOne

\* a uniform 3 x 3 field of temperature 1.5 rendered as it was mapped: the
\* range is 1.5 to 1.6 and every point is normalised to 0
C26_Witness ==
    /\ field.stage = "rendered"
    /\ field.width = 3 /\ field.height = 3
    /\ Temperatures(field.data) = {15000}
    /\ field.range = [min |-> 15000, max |-> 16000]
    /\ \A i \in DOMAIN field.data : field.normalized[i] = 0

----------------------------------------------------------------------------
(* The heat of a cell *)

\* min(2.0, 1.0 + 0.5 * min(age / 20, 1) + 0.8 for a newly born cell), in
\* thousandths
StatedHeat(cell) ==
    Min(2000, 1000 + Min(25 * cell.age, 500) + (IF cell.age = 1 THEN 800 ELSE 0))

\* C25 as stated: for every living cell calculateCellHeat returns
\* min(2.0, 1.0 + 0.5 * min(age/20, 1) + 0.8 if newly born); the age bonus
\* reaches its maximum of 0.5 only at age 20 and the result lies in
\* [1.0, 2.0].
C25_HeatFormula ==
    \A p \in Positions(width, height) :
       LET cell == cells[p[2]][p[1]]
       IN  cell.alive =>
              /\ 10 * CalculateCellHeat(cell) = StatedHeat(cell)
              /\ AgeBonus(cell) = 50 => cell.age >= 20
              /\ CalculateCellHeat(cell) \in 100 .. 200

----------------------------------------------------------------------------
(* Audio for births *)

\* the coordinates the audio system is given notes for
NotedCells == UNION {Range(audioCalls[i].cells) : i \in 1..Len(audioCalls)}

\* the number of notes the audio system is asked for
NoteCount ==
    IF audioCalls = << >> THEN 0 ELSE Len(audioCalls[1].cells)

\* C27: in a generation with an audio system attached, notes are triggered
\* for exactly min(number of births, 8) distinct coordinates, each born in
\* this generation (dead before, alive now); there is no call without a
\* birth, one playCellSound for a single birth and one playArpeggio
\* otherwise; no call is made for a death, and the calls are the same
\* whatever the deaths list holds.
C27_NotesForBirthsOnly ==
    (op.name \in StepNames /\ audioSystem) =>
        LET births == cellStateChanges.births
            deaths == cellStateChanges.deaths
            n == Len(births)
        IN  /\ Len(audioCalls) <= 1
            /\ NoteCount = Min(n, ArpeggioLimit)
            /\ Cardinality(NotedCells) = Min(n, ArpeggioLimit)
            /\ \A c \in NotedCells :
                  /\ c \in Range(births)
                  /\ c \notin Range(deaths)
                  /\ cells[c.y][c.x].alive /\ cells[c.y][c.x].age = 1
            /\ n = 0 <=> audioCalls = << >>
            /\ n = 1 => audioCalls[1].method = "playCellSound"
            /\ n > 1 => audioCalls[1].method = "playArpeggio"
            /\ \E draw \in AudioDraws(births) :
                  \A other \in {<< >>, deaths, births} :
                     audioCalls =
                        PlayAudioForChanges([births |-> births, deaths |-> other], draw)

\* a generation with more than 8 births and with deaths: 8 notes, none for a
\* death
C27_Witness ==
    /\ op.name \in StepNames
    /\ audioSystem
    /\ Len(cellStateChanges.births) > ArpeggioLimit
    /\ Len(cellStateChanges.deaths) > 0
    /\ Cardinality(NotedCells) = ArpeggioLimit
    /\ NotedCells \cap Range(cellStateChanges.deaths) = {}

----------------------------------------------------------------------------
(* The event loop: the interval timer, the render loop and the input        *)
(* handlers as callbacks, with step() taken one phase at a time.  task is    *)
(* the callback being run and the position it has reached; from is the       *)
(* generation counter at its start.                                          *)

\* step() and applyRules() with a point between the two phases at which
\* control goes back to the event loop
AwaitsBeforeCommit(at) == at = "commit"

\* step() and applyRules() are plain synchronous functions, with no await
\* and no yield: at no position do they hand control back to the event loop
AwaitsAt(at) == FALSE

\* the event loop starts a callback when none is running, or when the one
\* running has handed control back
CanDispatch == task = IdleTask \/ AwaitsAt(task.at)

LoopUnchanged ==
    UNCHANGED <<now, renderer, thermal, field, pixel, isRunning, intervalId,
                updateSpeed, timers, onUpdate, onStateChange, audioSystem>>

\* step(), entered from the timer callback or the step key: the first pair
\* of loops of applyRules
StepComputePhase(name) ==
    /\ CanDispatch
    /\ generation < MaxGen
    /\ name = "tick" => timers /= {}
    /\ SetGrid(ComputePhase(TheGrid, 0))
    /\ task' = [name |-> name, at |-> "commit", from |-> generation]
    /\ audioCalls' = << >>
    /\ callbacks' = << >>
    /\ op' = Op("computePhase")
    /\ UNCHANGED <<generation, cellStateChanges>>
    /\ LoopUnchanged

\* the rest of applyRules: the change lists cleared, the second pair of
\* loops, the audio and generation++
StepCommitPhase ==
    /\ task.at = "commit"
    /\ LET res == CommitPhase([grid |-> TheGrid,
                               changes |-> ClearedChanges(cellStateChanges)], 0)
       IN  /\ SetGrid(res.grid)
           /\ cellStateChanges' = res.changes
           /\ \E draw \in AudioDraws(res.changes.births) :
                 audioCalls' = IF audioSystem
                               THEN PlayAudioForChanges(res.changes, draw)
                               ELSE << >>
    /\ generation' = NextGeneration(generation)
    /\ task' = [task EXCEPT !.at = "onUpdate"]
    /\ callbacks' = << >>
    /\ op' = Op("commitPhase")
    /\ LoopUnchanged

\* the second line of step(): if (this.onUpdate) this.onUpdate(), after
\* which the callback returns
StepNotify ==
    /\ task.at = "onUpdate"
    /\ callbacks' = CallOnUpdate(<<>>, generation, TheGrid, isRunning)
    /\ task' = IdleTask
    /\ op' = [Op(task.name) EXCEPT !.from = <<task.from, 0>>]
    /\ UNCHANGED <<width, height, cells, cellIds, generation, cellStateChanges,
                   audioCalls>>
    /\ LoopUnchanged

\* the timer set by start() fires
LoopTick == StepComputePhase("tick")

\* the step key
LoopStepKey == StepComputePhase("step")

\* the time from the start to the frames of the render loop taken here
LoopDeltas == {20000}

\* a frame of the render loop
LoopRender == CanDispatch /\ \E dt \in LoopDeltas : RenderFrame(dt)

\* main.js handleCanvasClick: setCellState(x, y, true) at a grid position
LoopClick ==
    /\ CanDispatch
    /\ \E x \in 0 .. (width - 1), y \in 0 .. (height - 1) : SetCellState(x, y, TRUE)

\* the positions at which toggleCell is called here
LoopToggleProbes == {<<1, 1>>}

\* GameOfLife.toggleCell(x, y) from an input handler
LoopToggleCell ==
    /\ CanDispatch
    /\ \E p \in LoopToggleProbes : ToggleCell(p[1], p[2])

\* the space key: toggle()
LoopToggle == CanDispatch /\ Toggle

LoopDims == <<2, 2>>

InitLoop == Constructed(LoopDims[1], LoopDims[2], FALSE, TRUE)

NextLoop ==
    \/ LoopTick
    \/ LoopStepKey
    \/ StepCommitPhase
    \/ StepNotify
    \/ LoopRender
    \/ LoopClick
    \/ LoopToggleCell
    \/ LoopToggle

SpecLoop == InitLoop /\ [][NextLoop]_vars

\* no cell of the array is between its compute and its commit: none has a
\* pending next state other than its state
Committed(cs, w, h) ==
    \A p \in Positions(w, h) : cs[p[2]][p[1]].nextState = cs[p[2]][p[1]].alive

\* C28: with the timer, the render loop and the input handlers as
\* run-to-completion callbacks, a generation step is never interleaved with
\* another step, a render or an edit: each of them starts when no callback
\* is in progress and finds every cell committed, a frame drawn shows a
\* committed grid, and the onUpdate call that ends step() is given a
\* committed grid and the generation counter already increased by the
\* generation just applied.
C28_RunToCompletion ==
    [][/\ op'.name \in {"computePhase", "render", "setCellState", "toggleCell", "toggle"} =>
             /\ task = IdleTask
             /\ Committed(cells, width, height)
       /\ (op'.name = "render" /\ renderer'.lastCall = "drawn") =>
             Committed(renderer'.canvas.cells, width, height)
       /\ op'.name \in {"setCellState", "toggleCell"} =>
             Committed(cells', width, height)
       /\ op'.name \in StepNames =>
             /\ Committed(cells', width, height)
             /\ generation' = op'.from[1] + 1
             /\ callbacks' = << [fn |-> "onUpdate", generation |-> op'.from[1] + 1,
                                 population |-> Cardinality({p \in Positions(width, height) :
                                                               cells'[p[2]][p[1]].alive}),
                                 running |-> isRunning'] >>]_vars

\* a timer tick has ended with its onUpdate call for generation 2, which had
\* births, after a frame was drawn of a grid with a living cell
C28_Witness ==
    /\ op.name = "tick"
    /\ task = IdleTask
    /\ generation = 2
    /\ Len(callbacks) = 1 /\ callbacks[1].generation = 2
    /\ Len(cellStateChanges.births) > 0
    /\ renderer.lastCall = "drawn"
    /\ \E p \in Positions(width, height) : renderer.canvas.cells[p[2]][p[1]].alive

----------------------------------------------------------------------------
(* The running state *)

\* the values handed to onStateChange by the last operation, in order
StateChanges ==
    LET calls == SelectSeq(callbacks, LAMBDA c : c.fn = "onStateChange")
    IN  [i \in 1..Len(calls) |-> calls[i].running]

\* starting from the running flag given, every value of the sequence is the
\* opposite of the one before it
RECURSIVE Alternates(_, _)
Alternates(running, values) ==
    \/ values = << >>
    \/ /\ Head(values) = ~running
       /\ Alternates(Head(values), Tail(values))

\* C29: in every reachable state isRunning holds iff intervalId is non-null;
\* at most one interval timer is active, the one named by intervalId when
\* running and none when stopped; the active timer has the current
\* updateSpeed as its delay; and onStateChange is invoked only on an actual
\* transition: every value it is given is the opposite of the running state
\* just before, the last one is the running state the operation leaves, and
\* an operation that makes no call leaves the running state as it was.
C29_OneTimerWhileRunning ==
    /\ [](/\ isRunning <=> intervalId /= NullId
          /\ Cardinality(timers) <= 1
          /\ isRunning => timers = {[id |-> intervalId, delay |-> updateSpeed]}
          /\ ~isRunning => timers = {})
    /\ [][/\ Alternates(isRunning, StateChanges')
          /\ StateChanges' /= << >> =>
                StateChanges'[Len(StateChanges')] = isRunning'
          /\ StateChanges' = << >> => isRunning' = isRunning]_vars

\* the speed changed to 1000 ms while running: the timer was replaced by one
\* with the new delay, with onStateChange(false) and onStateChange(true)
C29_Witness ==
    /\ op.name = "setSpeed"
    /\ isRunning
    /\ updateSpeed = 1000
    /\ timers = {[id |-> intervalId, delay |-> 1000]}
    /\ StateChanges = <<FALSE, TRUE>>

----------------------------------------------------------------------------
(* The pattern menu: the patterns of Controls.getPatterns() loaded from the  *)
(* menu, run, stopped and reset                                              *)

\* a row of a pattern given as 0s and 1s
PatternRow(bits) == [i \in 1..Len(bits) |-> bits[i] = 1]

Toad ==
    << PatternRow(<<0, 1, 1, 1>>),
       PatternRow(<<1, 1, 1, 0>>) >>

Beacon ==
    << PatternRow(<<1, 1, 0, 0>>),
       PatternRow(<<1, 1, 0, 0>>),
       PatternRow(<<0, 0, 1, 1>>),
       PatternRow(<<0, 0, 1, 1>>) >>

Pulsar ==
    LET bars == PatternRow(<<0, 0, 1, 1, 1, 0, 0, 0, 1, 1, 1, 0, 0>>)
        none == PatternRow(<<0, 0, 0, 0, 0, 0, 0, 0, 0, 0, 0, 0, 0>>)
        legs == PatternRow(<<1, 0, 0, 0, 0, 1, 0, 1, 0, 0, 0, 0, 1>>)
    IN  << bars, none, legs, legs, legs, bars, none,
           bars, legs, legs, legs, none, bars >>

Pentadecathlon == << PatternRow(<<1, 1, 1, 1, 1, 1, 1, 1, 1, 1>>) >>

\* Controls.getPatterns()
MenuPatterns == {Glider, Blinker, Toad, Beacon, Pulsar, Pentadecathlon}

\* a grid that holds every pattern of the menu, with an even margin across
\* and an odd one down for the pulsar (the application's grid is 30 x 30)
MenuDims == <<15, 14>>

InitMenu == Constructed(MenuDims[1], MenuDims[2], FALSE, TRUE)

MenuLoad == \E pattern \in MenuPatterns : ControlsLoadPattern(pattern)

\* the generations a loaded pattern is run for
MenuGens == 2

\* the timer set by start() fires
MenuTick ==
    /\ timers /= {}
    /\ generation < MenuGens
    /\ StepCore("tick")

NextMenu ==
    \/ MenuLoad
    \/ MenuTick
    \/ Toggle
    \/ Reset

SpecMenu == InitMenu /\ [][NextMenu]_vars

\* the positions a pattern marks alive when its top left corner is at
\* (startX, startY)
PatternCells(pattern, startX, startY) ==
    {<<startX + c - 1, startY + r - 1>> :
        <<c, r>> \in {q \in (1..Len(pattern[1])) \X (1..Len(pattern)) : pattern[q[2]][q[1]]}}

\* a pattern of pw columns placed at column startX of a grid of w columns is
\* centred: it lies within the grid and the margin before it is the margin
\* after it, or one less
CentredAt(startX, pw, w) ==
    /\ startX >= 0
    /\ startX + pw <= w
    /\ (w - pw - startX) - startX \in {0, 1}

====
